---------------------------- MODULE Spec2Model ----------------------------
(***************************************************************************)
(* A model of clr, the command-line dispatcher of src/clr: the grammar     *)
(* that Namespace.argument_parser derives from a command's signature, the  *)
(* parse of a token list against that grammar, the binder of               *)
(* Namespace.parse_args, the invocation made by main, and the metadata     *)
(* cache (NamespaceCache).                                                 *)
(*                                                                         *)
(* Text is modelled as a sequence of one-character strings, so that the    *)
(* tests the code makes on text (startswith, split on "=", upper, int())   *)
(* are computed and not assumed.  The parser object the code builds is an  *)
(* argparse.ArgumentParser; its parse is modelled as the standard library  *)
(* runs it up to Python 3.11 (the interpreter line of the repository:      *)
(* src/setup.py still installs the dataclasses backport, src/clr/util.py   *)
(* imports imp).                                                           *)
(***************************************************************************)
EXTENDS Integers, Sequences, FiniteSets, TLC

----------------------------------------------------------------------------
(* Text *)

StartsWith(s, p) == Len(s) >= Len(p) /\ SubSeq(s, 1, Len(p)) = p

\* str.find: the first index of character c in s, 0 when absent.
Find(s, c) ==
  IF \E i \in 1..Len(s) : s[i] = c
  THEN CHOOSE i \in 1..Len(s) : s[i] = c /\ \A j \in 1..(i - 1) : s[j] # c
  ELSE 0

LowerLetters ==
  <<"a","b","c","d","e","f","g","h","i","j","k","l","m",
    "n","o","p","q","r","s","t","u","v","w","x","y","z">>

UpperLetters ==
  <<"A","B","C","D","E","F","G","H","I","J","K","L","M",
    "N","O","P","Q","R","S","T","U","V","W","X","Y","Z">>

UpperChar(c) ==
  IF \E i \in 1..26 : LowerLetters[i] = c
  THEN UpperLetters[CHOOSE i \in 1..26 : LowerLetters[i] = c]
  ELSE c

\* str.upper
Upper(s) == [i \in 1..Len(s) |-> UpperChar(s[i])]

DigitChars == <<"0","1","2","3","4","5","6","7","8","9">>

IsDigit(c) == \E i \in 1..10 : DigitChars[i] = c

DigitVal(c) == (CHOOSE i \in 1..10 : DigitChars[i] = c) - 1

AllDigits(s) == Len(s) > 0 /\ \A i \in 1..Len(s) : IsDigit(s[i])

RECURSIVE DigitsVal(_)
DigitsVal(s) ==
  IF Len(s) = 0 THEN 0
  ELSE 10 * DigitsVal(SubSeq(s, 1, Len(s) - 1)) + DigitVal(s[Len(s)])

\* The sign a numeric literal may carry.
Unsigned(s) == IF Len(s) > 0 /\ s[1] \in {"-", "+"} THEN Tail(s) ELSE s

SignOf(s) == IF Len(s) > 0 /\ s[1] = "-" THEN -1 ELSE 1

----------------------------------------------------------------------------
(* Values of the program: every value carries its Python type. *)

NoneV == [t |-> "none"]
StrV(s) == [t |-> "str", s |-> s]
IntV(i) == [t |-> "int", i |-> i]
BoolV(b) == [t |-> "bool", b |-> b]
\* A float is kept as the decimal num / 10^places, without trailing zeros.
FloatV(num, places) == [t |-> "float", num |-> num, places |-> places]
EnumV(cls, member) == [t |-> "enum", cls |-> cls, member |-> member]
ListV(items) == [t |-> "list", items |-> items]
\* A default of a type the grammar does not support (a list, a dict, ...).
OtherV == [t |-> "other"]
\* inspect.Signature.empty: no default, no annotation.
Empty == [t |-> "empty"]

\* int(text): an optional sign and decimal digits.
IsIntText(s) == AllDigits(Unsigned(s))

IntOf(s) == IntV(SignOf(s) * DigitsVal(Unsigned(s)))

\* float(text): an optional sign, digits, and optionally a point and digits.
IsFloatText(s) ==
  LET u == Unsigned(s)
      p == Find(u, ".")
  IN IF p = 0 THEN AllDigits(u)
     ELSE /\ Len(u) > 1
          /\ \A i \in 1..Len(u) : i # p => IsDigit(u[i])

RECURSIVE NormFloat(_, _)
NormFloat(num, places) ==
  IF places > 0 /\ num % 10 = 0 THEN NormFloat(num \div 10, places - 1)
  ELSE FloatV(num, places)

FloatOf(s) ==
  LET u == Unsigned(s)
      p == Find(u, ".")
      whole == IF p = 0 THEN u ELSE SubSeq(u, 1, p - 1)
      frac == IF p = 0 THEN <<>> ELSE SubSeq(u, p + 1, Len(u))
      v == NormFloat(DigitsVal(whole \o frac), Len(frac))
  IN FloatV(SignOf(s) * v.num, v.places)

----------------------------------------------------------------------------
(* Enumerations a command may annotate a parameter with.  The repository's *)
(* own commands declare none; a namespace module is free to.               *)

EnumClasses == {"Color", "Size"}

\* cls.__members__, in definition order.
Members(cls) ==
  IF cls = "Color" THEN << <<"R","E","D">>, <<"B","L","U","E">> >>
  ELSE IF cls = "Size" THEN << <<"B","I","G">> >>
  ELSE <<>>

MemberSet(cls) == {Members(cls)[i] : i \in 1..Len(Members(cls))}

----------------------------------------------------------------------------
(* Signatures: inspect.Signature.from_callable of a bound method, the      *)
(* receiver dropped.  A parameter has a name, a kind, a default and an     *)
(* annotation.                                                             *)

Param(name, kind, default, annotation) ==
  [name |-> name, kind |-> kind, default |-> default, annotation |-> annotation]

Req(name) == Param(name, "POSITIONAL_OR_KEYWORD", Empty, "_empty")
Opt(name, default) == Param(name, "POSITIONAL_OR_KEYWORD", default, "_empty")
KwOnly(name, default) == Param(name, "KEYWORD_ONLY", default, "_empty")
VarPos(name) == Param(name, "VAR_POSITIONAL", Empty, "_empty")
ReqEnum(name, cls) == Param(name, "POSITIONAL_OR_KEYWORD", Empty, cls)

\* def cmd_argtest(self, a, b, c=4, d=None, e=False, f=True)
sig_argtest ==
  << Req(<<"a">>), Req(<<"b">>), Opt(<<"c">>, IntV(4)), Opt(<<"d">>, NoneV),
     Opt(<<"e">>, BoolV(FALSE)), Opt(<<"f">>, BoolV(TRUE)) >>

\* def cmd_argtest2(self, a, b, *c, d=4, e=None, f=False, g="")
sig_argtest2 ==
  << Req(<<"a">>), Req(<<"b">>), VarPos(<<"c">>), KwOnly(<<"d">>, IntV(4)),
     KwOnly(<<"e">>, NoneV), KwOnly(<<"f">>, BoolV(FALSE)),
     KwOnly(<<"g">>, StrV(<<>>)) >>

\* Commands of a user namespace ("demo"), of the shapes the grammar supports:
\*   def cmd_pair(self, a, b)
\*   def cmd_paint(self, a, col: Color)
\*   def cmd_pick(self, col: Color, a)
\*   def cmd_mix(self, col: Color, sz: Size)
\*   def cmd_scale(self, a, k=1.5)
\*   def cmd_topic(self, a)
sig_pair == << Req(<<"a">>), Req(<<"b">>) >>
sig_paint == << Req(<<"a">>), ReqEnum(<<"c","o","l">>, "Color") >>
sig_pick == << ReqEnum(<<"c","o","l">>, "Color"), Req(<<"a">>) >>
sig_mix == << ReqEnum(<<"c","o","l">>, "Color"), ReqEnum(<<"s","z">>, "Size") >>
sig_scale == << Req(<<"a">>), Opt(<<"k">>, FloatV(15, 1)) >>
sig_topic == << Req(<<"a">>) >>

\* Commands whose declaration the grammar does not support:
\*   def cmd_stack(self, a, items=[])
\*   def cmd_opts(self, a, **kw)
\*   def cmd_early(self, a=1, *rest)
sig_stack == << Req(<<"a">>), Opt(<<"i","t","e","m","s">>, OtherV) >>
sig_opts == << Req(<<"a">>), Param(<<"k","w">>, "VAR_KEYWORD", Empty, "_empty") >>
sig_early == << Opt(<<"a">>, IntV(1)), VarPos(<<"r","e","s","t">>) >>

\* A command with a positional-only parameter: def cmd_only(self, a, /)
sig_only == << Param(<<"a">>, "POSITIONAL_ONLY", Empty, "_empty") >>


----------------------------------------------------------------------------
(* Namespace.argument_parser: the grammar of one command.                  *)
(*                                                                         *)
(* The parser is a record: error ("none", or the exception the builder     *)
(* raised), prog, description, actions (parser._actions, in the order      *)
(* added), groups (the mutually exclusive groups: whether each is          *)
(* required), and param: the loop variable `param` of argument_parser,     *)
(* which the nested function enum_parser reads when it is CALLED, i.e.     *)
(* after the loop has ended.                                               *)

Flag(name) == <<"-", "-">> \o name

NoFlag(name) == <<"-", "-", "n", "o">> \o name

\* issubclass(param.annotation, Enum)
IsEnumAnnotation(annotation) == annotation \in EnumClasses

\* Every default taken as text: no type is inferred from it.
TypeOfDefaultText(default) == "str"

\* type(param.default), as the name of the Python type.
TypeOfDefault(default) ==
  IF default.t \in {"str", "bool", "int", "float"} THEN default.t
  ELSE IF default.t = "enum" THEN default.cls
  ELSE "other"

\* One argparse action.  nargs: "None" (exactly one), "?", "*", "..."
\* (REMAINDER) or "0" (store_true / store_false, which store const).
\* group: the index of its mutually exclusive group, 0 for none.
Action(dest, opts, nargs, type, const, group, required, help) ==
  [dest |-> dest, opts |-> opts, nargs |-> nargs, type |-> type,
   const |-> const, group |-> group, required |-> required, help |-> help]

HelpRequired(alt) == [required |-> TRUE, default |-> Empty, alt |-> alt]

\* f"Optional. Defaults to {name}='{default_text}'." and what follows it.
HelpOptional(default, alt) == [required |-> FALSE, default |-> default, alt |-> alt]

NoHelp == [required |-> FALSE, default |-> Empty, alt |-> "none"]

OptionStrings(actions) ==
  UNION {{actions[i].opts[j] : j \in DOMAIN actions[i].opts} : i \in 1..Len(actions)}

\* parser.add_argument / group.add_argument: argparse refuses an option
\* string that is already registered (conflict_handler "error").
AddArgument(parser, action) ==
  IF parser.error # "none" THEN parser
  ELSE IF \E j \in DOMAIN action.opts : action.opts[j] \in OptionStrings(parser.actions)
  THEN [parser EXCEPT !.error = "ArgumentError"]
  ELSE [parser EXCEPT !.actions = Append(parser.actions, action)]

\* parser.add_mutually_exclusive_group(required=...)
AddGroup(parser, required) == [parser EXCEPT !.groups = Append(parser.groups, required)]

\* The `if required:` branch of the loop body (lines 300-332).
AddRequired(parser, key, command_name, param, arg_type, has_var_positional) ==
  IF param.kind \in {"POSITIONAL_ONLY", "POSITIONAL_OR_KEYWORD"}
  THEN IF has_var_positional
       THEN AddArgument(parser,
              Action(param.name, <<>>, "None", "str", NoneV, 0, TRUE, HelpRequired("none")))
       ELSE LET p1 == AddGroup(parser, TRUE)
                g == Len(p1.groups)
                p2 == AddArgument(p1,
                        Action(param.name, <<Flag(param.name)>>, "None", arg_type, NoneV,
                               g, FALSE, HelpRequired("positional")))
            IN AddArgument(p2,
                 Action(param.name, <<>>, "?", arg_type, NoneV, g, FALSE,
                        HelpRequired("named")))
  ELSE IF param.kind = "VAR_POSITIONAL"
  THEN LET nargs == IF key = "system" /\ command_name = "smart_complete"
                    THEN "..." ELSE "*"
       IN AddArgument(parser,
            Action(param.name, <<>>, nargs, "str", NoneV, 0, TRUE, NoHelp))
  ELSE [parser EXCEPT !.error = "AssertionError"]

\* The `else:` branch of the loop body (lines 333-392).
AddOptional(parser, param, arg_type0, has_var_positional) ==
  IF param.kind \notin {"POSITIONAL_OR_KEYWORD", "KEYWORD_ONLY"}
  THEN [parser EXCEPT !.error = "AssertionError"]
  ELSE
    LET infer == arg_type0 = "None" /\ param.default # NoneV
        arg_type == IF infer THEN TypeOfDefault(param.default) ELSE arg_type0
    IN IF infer /\ arg_type \notin {"str", "bool", "int", "float"}
       THEN [parser EXCEPT !.error = "AssertionError"]
       ELSE IF arg_type = "bool"
       THEN LET p1 == AddGroup(parser, FALSE)
                g == Len(p1.groups)
                p2 == AddArgument(p1,
                        Action(param.name, <<Flag(param.name)>>, "0", "None", BoolV(TRUE),
                               g, FALSE, HelpOptional(param.default, "inverse")))
            IN AddArgument(p2,
                 Action(param.name, <<NoFlag(param.name)>>, "0", "None", BoolV(FALSE),
                        g, FALSE, HelpOptional(param.default, "inverse")))
       ELSE IF has_var_positional
       THEN AddArgument(parser,
              Action(param.name, <<Flag(param.name)>>, "None", arg_type, NoneV, 0, FALSE,
                     HelpOptional(param.default, "none")))
       ELSE LET p1 == AddGroup(parser, FALSE)
                g == Len(p1.groups)
                p2 == AddArgument(p1,
                        Action(param.name, <<>>, "?", arg_type, NoneV, g, FALSE,
                               HelpOptional(param.default, "named")))
            IN AddArgument(p2,
                 Action(param.name, <<Flag(param.name)>>, "None", arg_type, NoneV, g, FALSE,
                        HelpOptional(param.default, "positional")))

\* No parameter taken as variadic: the grammar of a command without one.
NoVarPositional(parameters) == FALSE

\* has_var_positional = any(p.kind == p.VAR_POSITIONAL for p in parameters)
HasVarPositional(parameters) ==
  \E i \in 1..Len(parameters) : parameters[i].kind = "VAR_POSITIONAL"

\* The type a parameter's arguments get before its default is looked at:
\* enum_parser for an Enum annotation, else None (text).  issubclass raises
\* TypeError when the annotation is not a class.
AnnotatedType(param) ==
  IF IsEnumAnnotation(param.annotation) THEN "enum_parser" ELSE "None"

\* One iteration of `for param in parameters:` (lines 278-392).
AddParam(parser, key, command_name, param, has_var_positional, before_var_positional) ==
  LET required == param.default = Empty
      before == before_var_positional /\ param.kind # "VAR_POSITIONAL"
      bound == [parser EXCEPT !.param = param]
  IN IF before /\ ~required THEN [bound EXCEPT !.error = "AssertionError"]
     ELSE IF param.annotation = "typing" THEN [bound EXCEPT !.error = "TypeError"]
     ELSE IF required
     THEN AddRequired(bound, key, command_name, param, AnnotatedType(param),
                      has_var_positional)
     ELSE AddOptional(bound, param, AnnotatedType(param), has_var_positional)

RECURSIVE AddParams(_, _, _, _, _, _)
AddParams(parser, key, command_name, parameters, i, before_var_positional) ==
  IF i > Len(parameters) \/ parser.error # "none" THEN parser
  ELSE AddParams(
         AddParam(parser, key, command_name, parameters[i],
                  HasVarPositional(parameters), before_var_positional),
         key, command_name, parameters, i + 1,
         before_var_positional /\ parameters[i].kind # "VAR_POSITIONAL")

\* A CommandSpec: the docstring and the signature.
CommandSpec(docstr, signature) == [docstr |-> docstr, signature |-> signature]

\* Namespace.argument_parser(command_name), also NamespaceCacheEntry's: both
\* read self.key and self.command_specs only.
argument_parser(key, command_specs, command_name) ==
  LET spec == command_specs[command_name]
      parameters == spec.signature
      parser == [error |-> "none", prog |-> <<"clr", key, command_name>>,
                 description |-> spec.docstr, actions |-> <<>>, groups |-> <<>>,
                 param |-> Empty]
  IN AddParams(parser, key, command_name, parameters, 1, HasVarPositional(parameters))

----------------------------------------------------------------------------
(* ArgumentParser.parse_args(argv, namespace=parsed): the standard         *)
(* library's parse of a token list against the parser built above.         *)

\* No error: the record of an error, with nothing in it.
NoErr == [k |-> "none", what |-> "none", arg |-> <<>>, other |-> <<>>]

\* parser.error(message): the usage and the message on stderr, exit status 2.
\* what: the message's kind; arg: the flag or position named; other: the
\* values it quotes.
UsageError(what, arg, other) == [k |-> "error", what |-> what, arg |-> arg, other |-> other]

\* An exception that is no ArgumentError, TypeError or ValueError leaves
\* parse_args as it is.
Raised(exc, arg, other) == [k |-> "raise", what |-> exc, arg |-> arg, other |-> other]

\* The dest of the action, for an option too.
ActionDest(action) == action.dest

\* _get_action_name: the option string, or the dest of a positional.
ActionName(action) == IF Len(action.opts) > 0 THEN action.opts[1] ELSE action.dest

\* parser._option_string_actions[text]: the action's index, 0 when absent.
OptionAction(parser, text) ==
  IF \E i \in 1..Len(parser.actions) : Len(parser.actions[i].opts) > 0
                                        /\ parser.actions[i].opts[1] = text
  THEN CHOOSE i \in 1..Len(parser.actions) : Len(parser.actions[i].opts) > 0
                                              /\ parser.actions[i].opts[1] = text
  ELSE 0

\* _negative_number_matcher: '^-\d+$|^-\d*\.\d+$'
NegativeNumberLike(text) ==
  /\ Len(text) > 1 /\ text[1] = "-"
  /\ LET u == Tail(text)
         p == Find(u, ".")
     IN IF p = 0 THEN AllDigits(u)
        ELSE /\ p < Len(u)
             /\ \A i \in 1..Len(u) : i # p => IsDigit(u[i])

\* text.split("=", 1)
BeforeEq(text) == IF Find(text, "=") = 0 THEN text ELSE SubSeq(text, 1, Find(text, "=") - 1)

AfterEq(text) ==
  IF Find(text, "=") = 0 THEN NoneV
  ELSE StrV(SubSeq(text, Find(text, "=") + 1, Len(text)))

\* _get_option_tuples: the registered option strings the token abbreviates
\* (allow_abbrev), as action indices.
OptionTuples(parser, text) ==
  IF Len(text) >= 2 /\ text[1] = "-" /\ text[2] = "-"
  THEN {i \in 1..Len(parser.actions) :
          Len(parser.actions[i].opts) > 0
          /\ StartsWith(parser.actions[i].opts[1], BeforeEq(text))}
  ELSE {}

Positional == [pat |-> "A", action |-> 0, option_string |-> <<>>, explicit |-> NoneV]

Optional(action, option_string, explicit) ==
  [pat |-> "O", action |-> action, option_string |-> option_string, explicit |-> explicit]

\* _parse_optional: how one token is read.  pat "A": an argument; "O": an
\* option (action 0: an option the parser does not know); "!": ambiguous.
ParseOptional(parser, text) ==
  IF Len(text) = 0 THEN Positional
  ELSE IF text[1] # "-" THEN Positional
  ELSE IF OptionAction(parser, text) # 0
  THEN Optional(OptionAction(parser, text), text, NoneV)
  ELSE IF Len(text) = 1 THEN Positional
  ELSE IF Find(text, "=") # 0 /\ OptionAction(parser, BeforeEq(text)) # 0
  THEN Optional(OptionAction(parser, BeforeEq(text)), BeforeEq(text), AfterEq(text))
  ELSE LET tuples == OptionTuples(parser, text)
       IN IF Cardinality(tuples) > 1
          THEN [pat |-> "!", action |-> 0, option_string |-> text, explicit |-> NoneV]
          ELSE IF Cardinality(tuples) = 1
          THEN LET a == CHOOSE i \in tuples : TRUE
               IN Optional(a, parser.actions[a].opts[1], AfterEq(text))
          ELSE IF NegativeNumberLike(text) THEN Positional
          ELSE IF Find(text, " ") # 0 THEN Positional
          ELSE Optional(0, text, NoneV)

\* enum_parser(arg), the nested function of argument_parser (lines 294-297).
\* `param` and `name` are read from the enclosing frame when the parser
\* runs: they are the loop's last bindings, parser.param.
enum_parser(parser, arg) ==
  LET param == parser.param
      name == parser.param.name
  IN IF ~IsEnumAnnotation(param.annotation)
     THEN [ok |-> FALSE, err |-> Raised("AttributeError", name, <<>>)]
     ELSE IF Upper(arg) \notin MemberSet(param.annotation)
     THEN [ok |-> FALSE,
           err |-> Raised("AssertionError", name, Members(param.annotation))]
     ELSE [ok |-> TRUE, v |-> EnumV(param.annotation, Upper(arg))]

\* _get_value: the action's type applied to one token.
GetValue(parser, action, text) ==
  IF action.type = "int"
  THEN IF IsIntText(text) THEN [ok |-> TRUE, v |-> IntOf(text)]
       ELSE [ok |-> FALSE,
             err |-> UsageError("invalid int value", ActionName(action), <<text>>)]
  ELSE IF action.type = "float"
  THEN IF IsFloatText(text) THEN [ok |-> TRUE, v |-> FloatOf(text)]
       ELSE [ok |-> FALSE,
             err |-> UsageError("invalid float value", ActionName(action), <<text>>)]
  ELSE IF action.type = "enum_parser" THEN enum_parser(parser, text)
  ELSE [ok |-> TRUE, v |-> StrV(text)]

RECURSIVE GetValueList(_, _, _, _)
GetValueList(parser, action, texts, done) ==
  IF Len(texts) = 0 THEN [ok |-> TRUE, v |-> ListV(done)]
  ELSE LET one == GetValue(parser, action, Head(texts))
       IN IF one.ok THEN GetValueList(parser, action, Tail(texts), Append(done, one.v))
          ELSE one

\* _get_values: the value an action stores for the tokens matched to it.
GetValues(parser, action, texts) ==
  IF Len(texts) = 0 /\ action.nargs = "?" THEN [ok |-> TRUE, v |-> NoneV]
  ELSE IF Len(texts) = 1 /\ action.nargs \in {"None", "?"}
  THEN GetValue(parser, action, texts[1])
  ELSE GetValueList(parser, action, texts, <<>>)

\* argparse.Namespace.__setattr__, which stores None as any value: with it
\* the empty positional slot of a parameter overwrites what its flag stored.
SetAttrPlain(ns, attr, value) == (attr :> value) @@ ns

\* NoneIgnoringArgparseDestination.__setattr__ (lines 143-145).
SetAttr(ns, attr, value) ==
  IF value # NoneV THEN (attr :> value) @@ ns ELSE ns

\* A parser whose groups are not mutually exclusive: no action conflicts
\* with another.
NoConflicts(parser, a) == {}

\* The other actions of an action's mutually exclusive group.
Conflicts(parser, a) ==
  {i \in 1..Len(parser.actions) :
     i # a /\ parser.actions[a].group # 0
     /\ parser.actions[i].group = parser.actions[a].group}

\* Both flags of a boolean declared with action="store_true".
StoredTrue(action, got) == IF action.nargs = "0" THEN BoolV(TRUE) ELSE got.v

\* What the action stores: the constant of store_true (line 361) and
\* store_false (line 367), else the converted value.
StoredValue(action, got) == IF action.nargs = "0" THEN action.const ELSE got.v

\* take_action once the values are converted (got): refuse a second member
\* of a mutually exclusive group, else store (store, store_true and
\* store_false actions).
StoreAction(parser, st, a, got) ==
  LET action == parser.actions[a]
      hit == Conflicts(parser, a) \cap st.seen_non_default
  IN IF ~got.ok THEN [st EXCEPT !.err = got.err, !.seen = @ \cup {a}]
     ELSE IF got.v # NoneV /\ hit # {}
     THEN [st EXCEPT !.seen = @ \cup {a},
             !.err = UsageError("not allowed with argument", ActionName(action),
                        <<ActionName(parser.actions[CHOOSE i \in hit :
                                                      \A j \in hit : i <= j])>>)]
     ELSE [st EXCEPT !.seen = @ \cup {a},
             !.seen_non_default = IF got.v # NoneV THEN @ \cup {a} ELSE @,
             !.ns = SetAttr(@, action.dest, StoredValue(action, got))]

\* take_action: argument_values = self._get_values(action, argument_strings),
\* then the conflict test and the store.
TakeAction(parser, st, a, texts) ==
  StoreAction(parser, st, a, GetValues(parser, parser.actions[a], texts))

\* The lengths one positional slot may take at pattern position pos, in the
\* order the regular expression of its nargs tries them (greedy first):
\* 'A', 'A?', 'A*' and, for REMAINDER, '[-AO]*'.
RECURSIVE RunOfA(_, _)
RunOfA(pat, pos) ==
  IF pos <= Len(pat) /\ pat[pos] = "A" THEN 1 + RunOfA(pat, pos + 1) ELSE 0

Downto(n) == [i \in 1..(n + 1) |-> n + 1 - i]

SlotLengths(nargs, pat, pos) ==
  IF nargs = "None" THEN (IF RunOfA(pat, pos) >= 1 THEN <<1>> ELSE <<>>)
  ELSE IF nargs = "?" THEN (IF RunOfA(pat, pos) >= 1 THEN <<1, 0>> ELSE <<0>>)
  ELSE IF nargs = "*" THEN Downto(RunOfA(pat, pos))
  ELSE IF nargs = "..." THEN Downto(Len(pat) + 1 - pos)
  ELSE <<0>>

\* re.match of the slots' patterns, one after the other, at pat[pos..]:
\* the first assignment of lengths in the order a backtracking match
\* tries them.
RECURSIVE MatchSlots(_, _, _)
RECURSIVE TryLengths(_, _, _, _)
TryLengths(slots, pat, pos, lengths) ==
  IF Len(lengths) = 0 THEN [ok |-> FALSE, counts |-> <<>>]
  ELSE LET rest == MatchSlots(Tail(slots), pat, pos + Head(lengths))
       IN IF rest.ok THEN [ok |-> TRUE, counts |-> <<Head(lengths)>> \o rest.counts]
          ELSE TryLengths(slots, pat, pos, Tail(lengths))

MatchSlots(slots, pat, pos) ==
  IF Len(slots) = 0 THEN [ok |-> TRUE, counts |-> <<>>]
  ELSE TryLengths(slots, pat, pos, SlotLengths(Head(slots), pat, pos))

\* _match_arguments_partial: the longest prefix of the positionals left
\* whose patterns match at pos; the number of tokens each takes.
RECURSIVE MatchPartial(_, _, _, _)
MatchPartial(slots, pat, pos, i) ==
  IF i = 0 THEN <<>>
  ELSE LET m == MatchSlots(SubSeq(slots, 1, i), pat, pos)
       IN IF m.ok THEN m.counts ELSE MatchPartial(slots, pat, pos, i - 1)

\* The loop of consume_positionals: take_action on each matched positional.
RECURSIVE TakePositionals(_, _, _, _, _)
TakePositionals(parser, argv, st, counts, start) ==
  IF Len(counts) = 0 \/ st.err # NoErr THEN [st EXCEPT !.idx = start]
  ELSE TakePositionals(parser, argv,
         [TakeAction(parser, st, Head(st.positionals),
                     SubSeq(argv, start, start + Head(counts) - 1))
            EXCEPT !.positionals = Tail(@)],
         Tail(counts), start + Head(counts))

\* arg_strings_pattern: 'A' or 'O' for every token.
RECURSIVE Pattern(_)
Pattern(cls) == IF Len(cls) = 0 THEN <<>> ELSE <<Head(cls).pat>> \o Pattern(Tail(cls))

NargsOf(parser, positionals) ==
  [i \in 1..Len(positionals) |-> parser.actions[positionals[i]].nargs]

\* consume_positionals(start_index); st.idx is the index it returns.
ConsumePositionals(parser, cls, argv, st, start) ==
  LET slots == NargsOf(parser, st.positionals)
      counts == MatchPartial(slots, Pattern(cls), start, Len(slots))
  IN TakePositionals(parser, argv, st, counts, start)

\* consume_optional(start_index); st.idx is the index it returns.
ConsumeOptional(parser, cls, argv, st, start) ==
  LET tuple == cls[start]
      action == parser.actions[tuple.action]
  IN IF tuple.action = 0
     THEN [st EXCEPT !.extras = Append(@, argv[start]), !.idx = start + 1]
     ELSE IF tuple.explicit # NoneV
     THEN IF action.nargs = "None"
          THEN [TakeAction(parser, st, tuple.action, <<tuple.explicit.s>>)
                  EXCEPT !.idx = start + 1]
          ELSE [st EXCEPT !.err = UsageError("ignored explicit argument",
                                     ActionName(action), <<tuple.explicit.s>>)]
     ELSE IF action.nargs = "0"
     THEN [TakeAction(parser, st, tuple.action, <<>>) EXCEPT !.idx = start + 1]
     ELSE IF RunOfA(Pattern(cls), start + 1) >= 1
     THEN [TakeAction(parser, st, tuple.action, <<argv[start + 1]>>)
             EXCEPT !.idx = start + 2]
     ELSE [st EXCEPT !.err = UsageError("expected one argument", ActionName(action), <<>>)]

OptionIndices(cls) == {i \in 1..Len(cls) : cls[i].pat = "O"}

\* min(index for index in option_string_indices if index >= start_index)
NextOption(cls, idx) ==
  CHOOSE i \in OptionIndices(cls) :
    i >= idx /\ \A j \in OptionIndices(cls) : j >= idx => i <= j

\* The strings between the positionals consumed and the next option string
\* are extras.
SkipToOption(cls, argv, st, next) ==
  IF st.idx \notin OptionIndices(cls)
  THEN [st EXCEPT !.extras = @ \o SubSeq(argv, st.idx, next - 1), !.idx = next]
  ELSE st

\* The while loop of _parse_known_args: positionals and options in turn,
\* until the last option string is passed.  LoopStep is one iteration, p the
\* state consume_positionals left.
RECURSIVE ConsumeLoop(_, _, _, _)
LoopStep(parser, cls, argv, st, next, p) ==
  IF p.err # NoErr THEN p
  ELSE IF p.idx > st.idx THEN ConsumeLoop(parser, cls, argv, p)
  ELSE ConsumeLoop(parser, cls, argv,
         ConsumeOptional(parser, cls, argv, SkipToOption(cls, argv, p, next), next))

ConsumeLoop(parser, cls, argv, st) ==
  IF st.err # NoErr \/ \A i \in OptionIndices(cls) : i < st.idx THEN st
  ELSE LoopStep(parser, cls, argv, st, NextOption(cls, st.idx),
         IF st.idx # NextOption(cls, st.idx)
         THEN ConsumePositionals(parser, cls, argv, st, st.idx)
         ELSE st)

PositionalActions(parser) ==
  SelectSeq([i \in 1..Len(parser.actions) |-> i],
            LAMBDA i : Len(parser.actions[i].opts) = 0)

\* The names of the required actions that were never seen, in parser order.
MissingRequired(parser, st) ==
  LET missing == SelectSeq([i \in 1..Len(parser.actions) |-> i],
                   LAMBDA i : parser.actions[i].required /\ i \notin st.seen)
  IN [j \in 1..Len(missing) |-> ActionName(parser.actions[missing[j]])]

\* The required mutually exclusive groups none of whose actions was given.
UnmetGroups(parser, st) ==
  {g \in 1..Len(parser.groups) :
     /\ parser.groups[g]
     /\ \A i \in 1..Len(parser.actions) :
          parser.actions[i].group = g => i \notin st.seen_non_default}

GroupNames(parser, g) ==
  LET members == SelectSeq([i \in 1..Len(parser.actions) |-> i],
                   LAMBDA i : parser.actions[i].group = g)
  IN [j \in 1..Len(members) |-> ActionName(parser.actions[members[j]])]

\* The end of parse_known_args and of parse_args, st the state the loops
\* left and extras the strings no action took: the required actions, the
\* required groups, then the unrecognized arguments.
FinishParse(parser, st, extras) ==
  IF st.err # NoErr THEN st.err
  ELSE IF Len(MissingRequired(parser, st)) > 0
  THEN UsageError("the following arguments are required", <<>>,
                  MissingRequired(parser, st))
  ELSE IF UnmetGroups(parser, st) # {}
  THEN UsageError("one of the arguments is required", <<>>,
                  GroupNames(parser, CHOOSE g \in UnmetGroups(parser, st) :
                                       \A h \in UnmetGroups(parser, st) : g <= h))
  ELSE IF Len(extras) > 0 THEN UsageError("unrecognized arguments", <<>>, extras)
  ELSE [k |-> "ok", ns |-> st.ns]

\* stop_index = consume_positionals(start_index) after the loop, and
\* extras.extend(arg_strings[stop_index:]).
LastPositionals(parser, cls, argv, st) ==
  IF st.err # NoErr THEN st ELSE ConsumePositionals(parser, cls, argv, st, st.idx)

Extras(argv, st) == st.extras \o SubSeq(argv, st.idx, Len(argv))

ParseLoops(parser, argv, st) == FinishParse(parser, st, Extras(argv, st))

\* The loop over arg_strings that reads every token with _parse_optional.
RECURSIVE ParseOptionals(_, _)
ParseOptionals(parser, argv) ==
  IF Len(argv) = 0 THEN <<>>
  ELSE <<ParseOptional(parser, Head(argv))>> \o ParseOptionals(parser, Tail(argv))

\* _parse_known_args on the tokens as _parse_optional read them (cls).
ParseKnownArgs(parser, argv, cls) ==
  LET ambiguous == {i \in 1..Len(argv) : cls[i].pat = "!"}
      st0 == [ns |-> <<>>, seen |-> {}, seen_non_default |-> {},
              positionals |-> PositionalActions(parser), extras |-> <<>>,
              err |-> NoErr, idx |-> 1]
  IN IF ambiguous # {}
     THEN UsageError("ambiguous option", <<>>,
                     <<argv[CHOOSE i \in ambiguous : \A j \in ambiguous : i <= j]>>)
     ELSE ParseLoops(parser, argv,
            LastPositionals(parser, cls, argv, ConsumeLoop(parser, cls, argv, st0)))

\* ArgumentParser.parse_args(argv, namespace=NoneIgnoringArgparseDestination()):
\* [k |-> "ok", ns |-> the attributes set], a usage error (exit status 2) or
\* the exception a type function raised.
ArgparseParse(parser, argv) ==
  ParseKnownArgs(parser, argv, ParseOptionals(parser, argv))

----------------------------------------------------------------------------
(* Namespace.parse_args: the binder, and inspect.Signature.bind.           *)

ParamIndex(signature, name) == CHOOSE i \in 1..Len(signature) : signature[i].name = name

Names(signature) == {signature[i].name : i \in 1..Len(signature)}

\* The parameters a positional argument can fill, in order.
PositionalParams(signature) ==
  SelectSeq(signature, LAMBDA p : p.kind \in {"POSITIONAL_ONLY", "POSITIONAL_OR_KEYWORD"})

\* signature.bind(*args, **kwargs) followed by apply_defaults():
\* [k |-> "bound", arguments |-> the value every parameter gets], or the
\* TypeError of an illegal call.
Bind(signature, args, kwargs) ==
  LET pos == PositionalParams(signature)
      filled == {pos[i].name : i \in 1..Len(pos) \cap 1..Len(args)}
      keyword_ok == \A n \in DOMAIN kwargs :
                      /\ n \in Names(signature) \ filled
                      /\ signature[ParamIndex(signature, n)].kind
                           \in {"POSITIONAL_OR_KEYWORD", "KEYWORD_ONLY"}
      given(p) == p.name \in filled \/ p.name \in DOMAIN kwargs
      complete == \A i \in 1..Len(signature) :
                    \/ given(signature[i])
                    \/ signature[i].default # Empty
                    \/ signature[i].kind \in {"VAR_POSITIONAL", "VAR_KEYWORD"}
      value(p) ==
        IF p.kind = "VAR_POSITIONAL" THEN ListV(SubSeq(args, Len(pos) + 1, Len(args)))
        ELSE IF p.name \in filled
        THEN args[CHOOSE i \in 1..Len(pos) : pos[i].name = p.name]
        ELSE IF p.name \in DOMAIN kwargs THEN kwargs[p.name]
        ELSE IF p.kind = "VAR_KEYWORD" THEN ListV(<<>>)
        ELSE p.default
  IN IF Len(args) > Len(pos) /\ ~HasVarPositional(signature)
     THEN Raised("TypeError", <<>>, <<>>)
     ELSE IF ~keyword_ok \/ ~complete
     THEN Raised("TypeError", <<>>, <<>>)
     ELSE [k |-> "bound",
           arguments |-> [n \in Names(signature) |->
                            value(signature[ParamIndex(signature, n)])]]

\* The loop of parse_args (lines 190-198) from parameter i on, building the
\* positional list and the name mapping, and the call of signature.bind
\* that ends it.  getattr of an attribute the parse did not set raises
\* AttributeError.
RECURSIVE BindLoop(_, _, _, _, _, _)
BindLoop(signature, parsed, i, before_var_positional, args, kwargs) ==
  IF i > Len(signature) THEN Bind(signature, args, kwargs)
  ELSE
    LET param == signature[i]
        has == param.name \in DOMAIN parsed
    IN IF param.kind = "VAR_POSITIONAL"
       THEN IF has
            THEN BindLoop(signature, parsed, i + 1, FALSE,
                          args \o parsed[param.name].items, kwargs)
            ELSE Raised("AttributeError", param.name, <<>>)
       ELSE IF before_var_positional
       THEN IF has
            THEN BindLoop(signature, parsed, i + 1, before_var_positional,
                          Append(args, parsed[param.name]), kwargs)
            ELSE Raised("AttributeError", param.name, <<>>)
       ELSE IF has
       THEN BindLoop(signature, parsed, i + 1, before_var_positional, args,
                     (param.name :> parsed[param.name]) @@ kwargs)
       ELSE BindLoop(signature, parsed, i + 1, before_var_positional, args, kwargs)

\* Lines 181-203 of parse_args: the parse of argv, then the binder on the
\* attributes it set.
BindParsed(signature, parsed) ==
  IF parsed.k # "ok" THEN parsed
  ELSE BindLoop(signature, parsed.ns, 1, HasVarPositional(signature), <<>>, <<>>)

\* parse_args from the parser that self.argument_parser(command_name) built.
ParseWith(signature, parser, argv) ==
  IF parser.error # "none" THEN Raised(parser.error, <<>>, <<>>)
  ELSE BindParsed(signature, ArgparseParse(parser, argv))

\* Namespace.parse_args(command_name, argv): [k |-> "bound", arguments], or
\* the usage error / exception that ends it.
parse_args(key, command_specs, command_name, argv) ==
  ParseWith(command_specs[command_name].signature,
            argument_parser(key, command_specs, command_name), argv)

----------------------------------------------------------------------------
(* The namespaces.  "system" is the class System of commands.py; "demo"    *)
(* and "tools" are namespace modules named by the clrfile, "broken" one    *)
(* whose import raises, "bare" one that imports and defines no COMMANDS,   *)
(* and "help" one with the name of a system command, whose instance has a  *)
(* cmdinit hook.  A key and a command name are atomic strings;             *)
(* a query is its parts around the separator: <<"demo", "pair">> is        *)
(* "demo:pair", <<"argtest">> is "argtest".                                *)

\* NAMESPACE_MODULE_PATHS.keys()
ModuleKeys == {"demo", "tools", "broken", "bare", "help"}

\* NAMESPACE_KEYS
NAMESPACE_KEYS == {"system"} \cup ModuleKeys

\* The cmd_ methods of class System (lines 526-756), named without cmd_.
system_specs ==
  [c \in {"clear_cache", "complete_command", "complete_arg", "smart_complete",
          "profile_imports", "help", "argtest", "argtest2"} |->
     IF c = "clear_cache" THEN CommandSpec("Clear clr's cache.", <<>>)
     ELSE IF c = "complete_command"
     THEN CommandSpec("Completion results for first arg to clr.",
                      << Opt(<<"q","u","e","r","y">>, StrV(<<>>)) >>)
     ELSE IF c = "complete_arg"
     THEN CommandSpec("Completion results for arguments.",
            << Req(<<"c","o","m","m","a","n","d","_","n","a","m","e">>),
               Opt(<<"p","a","r","t","i","a","l">>, StrV(<<>>)),
               Opt(<<"b","o","o","l","s","_","o","n","l","y">>, BoolV(FALSE)) >>)
     ELSE IF c = "smart_complete"
     THEN CommandSpec("Smart/opinionated completion.",
            << VarPos(<<"e","x","i","s","t","i","n","g","_","a","r","g","s">>) >>)
     ELSE IF c = "profile_imports"
     THEN CommandSpec("Prints some debugging information.",
            << VarPos(<<"n","a","m","e","s","p","a","c","e","s">>) >>)
     ELSE IF c = "help"
     THEN CommandSpec("provides help for commands.",
            << Opt(<<"q","u","e","r","y">>, NoneV),
               Opt(<<"q","u","e","r","y","2">>, NoneV) >>)
     ELSE IF c = "argtest" THEN CommandSpec("For testing arg parsing.", sig_argtest)
     ELSE CommandSpec("For testing arg parsing.", sig_argtest2)]

demo_specs ==
  [c \in {"pair", "paint", "pick", "mix"} |->
     IF c = "pair" THEN CommandSpec("", sig_pair)
     ELSE IF c = "paint" THEN CommandSpec("Paint a.", sig_paint)
     ELSE IF c = "pick" THEN CommandSpec("Pick a.", sig_pick)
     ELSE CommandSpec("", sig_mix)]

tools_specs == [c \in {"scale"} |-> CommandSpec("Scale a by k.", sig_scale)]

help_specs ==
  [c \in {"topic", "stack", "opts", "early", "only"} |->
     IF c = "topic" THEN CommandSpec("Show a topic.", sig_topic)
     ELSE IF c = "only" THEN CommandSpec("", sig_only)
     ELSE IF c = "stack" THEN CommandSpec("", sig_stack)
     ELSE IF c = "opts" THEN CommandSpec("", sig_opts)
     ELSE CommandSpec("", sig_early)]

\* import_module(module_path) raises for this key.
ImportFails(key) == key = "broken"

\* module.COMMANDS raises AttributeError for this key: the module imports
\* and does not define COMMANDS.
LacksCommands(key) == key = "bare"

\* _load_namespace(key): the Namespace of the instance's cmd_ methods,
\* ErrorLoadingNamespace when the import raised, or the exception raised
\* after the import, which nothing in _load_namespace catches.
\* instance.cmdinit: whether the instance defines the cmdinit hook.
load_namespace(key) ==
  IF key # "system" /\ ImportFails(key)
  THEN [type |-> "ErrorLoadingNamespace", key |-> key, error |-> "ImportError",
        descr |-> "ERROR Could not load.", longdescr |-> "Error importing module",
        command_specs |-> <<>>]
  ELSE IF key # "system" /\ LacksCommands(key)
  THEN [type |-> "raise", key |-> key, error |-> "AttributeError"]
  ELSE LET specs == IF key = "system" THEN system_specs
                    ELSE IF key = "demo" THEN demo_specs
                    ELSE IF key = "help" THEN help_specs ELSE tools_specs
       IN [type |-> "Namespace", key |-> key,
           descr |-> IF key = "system" THEN "clr built-in commands" ELSE key,
           longdescr |-> IF key = "system" THEN "Namespace for system commands"
                         ELSE key,
           command_specs |-> specs,
           command_callables |-> DOMAIN specs,
           instance |-> [cmdinit |-> key = "help"]]

\* namespace.commands
Commands(namespace) == DOMAIN namespace.command_specs

\* A registry that keeps the namespace last referenced only.
get_namespace_last(registry, key) == (key :> load_namespace(key))

\* get_namespace(key) raises what _load_namespace(key) raised.
Raises(registry, key) ==
  key \notin DOMAIN registry /\ load_namespace(key).type = "raise"

\* get_namespace(key): __NAMESPACES after the call; as it was when
\* _load_namespace raised.
get_namespace(registry, key) ==
  IF key \in DOMAIN registry \/ Raises(registry, key) THEN registry
  ELSE (key :> load_namespace(key)) @@ registry

\* resolve_command(query) as main calls it (cache=None): the key and the
\* command name, or the exit with status 1; registry: __NAMESPACES after it.
resolve_command(registry, query) ==
  LET r1 == IF Len(query) = 1 THEN get_namespace(registry, "system") ELSE registry
      namespace_key ==
        IF Len(query) > 1 THEN query[1]
        ELSE IF query[1] \in Commands(r1["system"]) THEN "system" ELSE query[1]
      command_name ==
        IF Len(query) > 1 THEN query[2]
        ELSE IF query[1] \in Commands(r1["system"]) THEN query[1] ELSE ""
      r2 == get_namespace(r1, namespace_key)
  IN IF namespace_key \notin NAMESPACE_KEYS
     THEN [ok |-> FALSE, registry |-> r1, what |-> "namespace does not exist"]
     ELSE IF Raises(r1, namespace_key)
     THEN [ok |-> FALSE, registry |-> r1, what |-> load_namespace(namespace_key).error]
     ELSE IF command_name \notin Commands(r2[namespace_key])
     THEN [ok |-> FALSE, registry |-> r2, what |-> "command does not exist"]
     ELSE [ok |-> TRUE, registry |-> r2, namespace_key |-> namespace_key,
           command_name |-> command_name]

----------------------------------------------------------------------------
(* The query as text, and the suggestions of resolve_command.              *)

\* The order of two characters (ord): the digits, "_", the letters.
OrdChars == DigitChars \o <<"_">> \o LowerLetters

Ord(c) == CHOOSE i \in 1..Len(OrdChars) : OrdChars[i] = c

\* s < t for two texts of lower-case letters.
RECURSIVE TextLess(_, _)
TextLess(s, t) ==
  IF Len(t) = 0 THEN FALSE
  ELSE IF Len(s) = 0 THEN TRUE
  ELSE IF s[1] # t[1] THEN Ord(s[1]) < Ord(t[1])
  ELSE TextLess(Tail(s), Tail(t))

\* SequenceMatcher.find_longest_match(alo, ahi, blo, bhi), no junk: the
\* longest block a[i..i+k-1] = b[j..j+k-1] inside the two ranges (1-based,
\* inclusive), of those the one that starts first in a, and of those the
\* one that starts first in b; k = 0 when no character matches.
BlockAt(a, b, i, j, k) == \A d \in 0..(k - 1) : a[i + d] = b[j + d]

Blocks(a, b, alo, ahi, blo, bhi) ==
  {m \in (alo..ahi) \X (blo..bhi) \X (1..(ahi - alo + 1)) :
     /\ m[1] + m[3] - 1 <= ahi
     /\ m[2] + m[3] - 1 <= bhi
     /\ BlockAt(a, b, m[1], m[2], m[3])}

Earlier(m, n) ==
  \/ m[3] > n[3]
  \/ m[3] = n[3] /\ m[1] < n[1]
  \/ m[3] = n[3] /\ m[1] = n[1] /\ m[2] <= n[2]

FirstLongest(blocks) == CHOOSE m \in blocks : \A n \in blocks : Earlier(m, n)

\* The number of matching characters around the block m: m, then what
\* matches to its left and to its right (get_matching_blocks).
RECURSIVE Matching(_, _, _, _, _, _)
Around(a, b, alo, ahi, blo, bhi, m) ==
  m[3] + Matching(a, b, alo, m[1] - 1, blo, m[2] - 1)
       + Matching(a, b, m[1] + m[3], ahi, m[2] + m[3], bhi)

Matching(a, b, alo, ahi, blo, bhi) ==
  IF alo > ahi \/ blo > bhi \/ Blocks(a, b, alo, ahi, blo, bhi) = {} THEN 0
  ELSE Around(a, b, alo, ahi, blo, bhi, FirstLongest(Blocks(a, b, alo, ahi, blo, bhi)))

\* SequenceMatcher(None, a, b).ratio() as the fraction <<2 * M, T>>; 1.0
\* for two empty texts.  In get_close_matches b is the word and a the
\* possibility.
Ratio(a, b) ==
  IF Len(a) + Len(b) = 0 THEN <<1, 1>>
  ELSE <<2 * Matching(a, b, 1, Len(a), 1, Len(b)), Len(a) + Len(b)>>

\* ratio >= cutoff, for the cutoff 0.4 of _get_close_matches.
AtLeastCutoff(r) == 10 * r[1] >= 4 * r[2]

\* heapq.nlargest orders the (score, possibility) pairs.
Better(word, x, y) ==
  \/ Ratio(x, word)[1] * Ratio(y, word)[2] > Ratio(y, word)[1] * Ratio(x, word)[2]
  \/ /\ Ratio(x, word)[1] * Ratio(y, word)[2] = Ratio(y, word)[1] * Ratio(x, word)[2]
     /\ TextLess(y, x)

\* The texts of a set, the best first.
RECURSIVE BestFirst(_, _)
BestOf(word, set) == CHOOSE x \in set : \A y \in set : x = y \/ Better(word, x, y)

BestFirst(word, set) ==
  IF set = {} THEN <<>>
  ELSE <<BestOf(word, set)>> \o BestFirst(word, set \ {BestOf(word, set)})

\* difflib.get_close_matches(word, possibilities, n=3, cutoff): the n
\* possibilities most like word of those that reach the cutoff.
difflib_get_close_matches(word, possibilities) ==
  LET good == BestFirst(word, {x \in possibilities : AtLeastCutoff(Ratio(x, word))})
  IN SubSeq(good, 1, IF Len(good) < 3 THEN Len(good) ELSE 3)

\* sorted(set of texts)
RECURSIVE Sorted(_)
Least(set) == CHOOSE x \in set : \A y \in set : x = y \/ TextLess(x, y)

Sorted(set) ==
  IF set = {} THEN <<>> ELSE <<Least(set)>> \o Sorted(set \ {Least(set)})

Range(seq) == {seq[i] : i \in 1..Len(seq)}

\* The options that start with the query and are not among the matches.
ByPrefix(query, options, matches) ==
  Sorted({o \in options : StartsWith(o, query) /\ o \notin Range(matches)})

\* The closest matches alone, without the options that start with the query.
close_matches_only(query, options) == difflib_get_close_matches(query, options)

\* _get_close_matches(query, options) (lines 82-90)
get_close_matches(query, options) ==
  IF Len(query) > 0
  THEN difflib_get_close_matches(query, options)
         \o ByPrefix(query, options, difflib_get_close_matches(query, options))
  ELSE difflib_get_close_matches(query, options)

\* The text of the names of the model: the keys of NAMESPACE_KEYS and the
\* names of the commands.
Text ==
  ("system" :> <<"s","y","s","t","e","m">>)
  @@ ("demo" :> <<"d","e","m","o">>)
  @@ ("tools" :> <<"t","o","o","l","s">>)
  @@ ("broken" :> <<"b","r","o","k","e","n">>)
  @@ ("bare" :> <<"b","a","r","e">>)
  @@ ("help" :> <<"h","e","l","p">>)
  @@ ("clear_cache" :> <<"c","l","e","a","r","_","c","a","c","h","e">>)
  @@ ("complete_command" :> <<"c","o","m","p","l","e","t","e","_","c","o","m","m","a","n","d">>)
  @@ ("complete_arg" :> <<"c","o","m","p","l","e","t","e","_","a","r","g">>)
  @@ ("smart_complete" :> <<"s","m","a","r","t","_","c","o","m","p","l","e","t","e">>)
  @@ ("profile_imports" :> <<"p","r","o","f","i","l","e","_","i","m","p","o","r","t","s">>)
  @@ ("argtest" :> <<"a","r","g","t","e","s","t">>)
  @@ ("argtest2" :> <<"a","r","g","t","e","s","t","2">>)
  @@ ("pair" :> <<"p","a","i","r">>)
  @@ ("paint" :> <<"p","a","i","n","t">>)
  @@ ("pick" :> <<"p","i","c","k">>)
  @@ ("mix" :> <<"m","i","x">>)
  @@ ("scale" :> <<"s","c","a","l","e">>)
  @@ ("topic" :> <<"t","o","p","i","c">>)
  @@ ("stack" :> <<"s","t","a","c","k">>)
  @@ ("opts" :> <<"o","p","t","s">>)
  @@ ("early" :> <<"e","a","r","l","y">>)
  @@ ("only" :> <<"o","n","l","y">>)
  @@ ("" :> <<>>)

\* The name a text spells; "?" for a text that is the name of nothing.
Atom(text) ==
  IF \E n \in DOMAIN Text : Text[n] = text
  THEN CHOOSE n \in DOMAIN Text : Text[n] = text
  ELSE "?"

\* The query read as a namespace key whenever it has no separator.
SplitAsKey(text) ==
  IF Find(text, ":") = 0 THEN <<Atom(text), "">>
  ELSE <<Atom(SubSeq(text, 1, Find(text, ":") - 1)),
         Atom(SubSeq(text, Find(text, ":") + 1, Len(text)))>>

\* query.split(":", 1) (line 97), or the query without a separator.
SplitQuery(text) ==
  IF Find(text, ":") = 0 THEN <<Atom(text)>>
  ELSE <<Atom(SubSeq(text, 1, Find(text, ":") - 1)),
         Atom(SubSeq(text, Find(text, ":") + 1, Len(text)))>>

\* The text resolve_command takes for the namespace key where it finds no
\* system command (lines 97, 106) and for the command name.
QueriedKey(text) ==
  IF Find(text, ":") = 0 THEN text ELSE SubSeq(text, 1, Find(text, ":") - 1)

QueriedCommand(text) ==
  IF Find(text, ":") = 0 THEN <<>> ELSE SubSeq(text, Find(text, ":") + 1, Len(text))

Texts_(names) == {Text[n] : n \in names}

\* What a call of resolve_command(query) leaves: the pair it returns, the
\* exit with status 1 and what it printed before (the closest matches and
\* what is available), or the exception of get_namespace.
Resolved(res, text) ==
  IF res.ok
  THEN [type |-> "resolved", query |-> text, namespace_key |-> res.namespace_key,
        command_name |-> res.command_name]
  ELSE IF res.what = "namespace does not exist"
  THEN [type |-> "exit", query |-> text, status |-> 1, what |-> res.what,
        matches |-> get_close_matches(QueriedKey(text), Texts_(NAMESPACE_KEYS)),
        available |-> Sorted(Texts_(NAMESPACE_KEYS))]
  ELSE IF res.what = "command does not exist"
  THEN [type |-> "exit", query |-> text, status |-> 1, what |-> res.what,
        matches |-> get_close_matches(QueriedCommand(text),
                      Texts_(Commands(res.registry[Atom(QueriedKey(text))]))),
        available |-> Sorted(Texts_(Commands(res.registry[Atom(QueriedKey(text))])))]
  ELSE [type |-> "raised", query |-> text, error |-> res.what]

\* resolve_command(query) for the query as typed.
resolve_query(registry, text) == Resolved(resolve_command(registry, SplitQuery(text)), text)

----------------------------------------------------------------------------
(* main (src/clr/main.py), run without the optional beeline module         *)
(* (beeline = None), and the metadata cache.                               *)


\* What a process run leaves: the status it exits with, whether the command
\* callable was invoked and with which arguments, and the error reported.
Outcome(status, called, arguments, error) ==
  [status |-> status, called |-> called, arguments |-> arguments, error |-> error]

NoOutcome == Outcome(-1, FALSE, <<>>, NoErr)

\* The callable raised.
RaiseV == [t |-> "raise"]

\* What a command callable may do: argtest and argtest2 print and return
\* None; a module's command may return anything or raise (the commands of
\* "demo" return None, those of "tools" an exit status, or raise).
Returns(namespace_key, command_name) ==
  IF namespace_key = "tools" THEN {NoneV, IntV(3), RaiseV}
  ELSE IF namespace_key = "help" THEN {NoneV, RaiseV}
  ELSE {NoneV}

\* The telemetry collaborator (lines 11-21, 24-62 of main.py): the module
\* beeline is None when its import failed ("absent"); imported, its init
\* goes through ("working") or raises inside the try of init_beeline
\* ("failing"), after which its calls do nothing.
Telemetry == {"absent", "working", "failing"}

\* sys.exit(exit_code) as the caller of the process sees it: the low byte.
ExitStatus(exit_code) == exit_code % 256

\* main without the try around the call of the command: the exception of
\* the callable ends the process as any uncaught exception does.
InvokeUncaught(namespace, bound, ret, beeline) ==
  IF bound.k = "error" THEN Outcome(2, FALSE, <<>>, bound)
  ELSE IF bound.k = "raise" THEN Outcome(1, FALSE, <<>>, bound)
  ELSE IF namespace.instance.cmdinit /\ beeline = "absent"
  THEN Outcome(1, FALSE, <<>>, Raised("AttributeError", <<>>, <<>>))
  ELSE IF ret = RaiseV
  THEN Outcome(1, TRUE, bound.arguments, Raised("Exception", <<>>, <<>>))
  ELSE IF ret.t = "int" THEN Outcome(ret.i, TRUE, bound.arguments, NoErr)
  ELSE IF ret.t = "bool"
  THEN Outcome(IF ret.b THEN 1 ELSE 0, TRUE, bound.arguments, NoErr)
  ELSE Outcome(0, TRUE, bound.arguments, NoErr)

\* Lines 91-116 of main: cmdinit, the call of the command, the exit.  Line
\* 98 enters beeline.tracer itself, not beeline_tracer: with beeline None a
\* namespace that has cmdinit ends there in an AttributeError.
Invoke(namespace, bound, ret, beeline) ==
  IF bound.k = "error" THEN Outcome(2, FALSE, <<>>, bound)
  ELSE IF bound.k = "raise" THEN Outcome(1, FALSE, <<>>, bound)
  ELSE IF namespace.instance.cmdinit /\ beeline = "absent"
  THEN Outcome(1, FALSE, <<>>, Raised("AttributeError", <<>>, <<>>))
  ELSE IF ret = RaiseV
  THEN Outcome(999, TRUE, bound.arguments, Raised("Exception", <<>>, <<>>))
  ELSE IF ret.t = "int" THEN Outcome(ret.i, TRUE, bound.arguments, NoErr)
  ELSE IF ret.t = "bool"
  THEN Outcome(IF ret.b THEN 1 ELSE 0, TRUE, bound.arguments, NoErr)
  ELSE Outcome(0, TRUE, bound.arguments, NoErr)

\* Lines 86-90 of main, res what resolve_command returned.
Dispatch(res, args, ret, beeline) ==
  IF ~res.ok
  THEN Outcome(1, FALSE, <<>>, [k |-> "resolve", what |-> res.what,
                                arg |-> <<>>, other |-> <<>>])
  ELSE Invoke(res.registry[res.namespace_key],
              parse_args(res.namespace_key,
                         res.registry[res.namespace_key].command_specs,
                         res.command_name, args),
              ret, beeline)

\* main(argv) for argv = ["clr", query] + args; ret: what the callable does
\* if it is called.  An uncaught exception ends the process with status 1,
\* parser.error with 2, a raising command with 999.
main(registry, query, args, ret, beeline) ==
  Dispatch(resolve_command(registry, query), args, ret, beeline)

\* NamespaceCacheEntry.create(namespace) (lines 433-437)
NamespaceCacheEntry_create(namespace) ==
  [type |-> "NamespaceCacheEntry", key |-> namespace.key, descr |-> namespace.descr,
   longdescr |-> namespace.longdescr, command_specs |-> namespace.command_specs]

\* A projection that keeps the names and kinds of the parameters only.
PickleParamBare(p) == <<p.name, p.kind, Empty, "_empty">>

\* What shelve writes for an entry (pickle): the fields in order, every
\* CommandSpec as its docstring and the tuple of its parameters' states.
PickleParam(p) == <<p.name, p.kind, p.default, p.annotation>>

PickleSpec(spec) ==
  <<spec.docstr, [i \in 1..Len(spec.signature) |-> PickleParam(spec.signature[i])]>>

Pickle(entry) ==
  <<entry.key, entry.descr, entry.longdescr,
    {<<c, PickleSpec(entry.command_specs[c])>> : c \in DOMAIN entry.command_specs}>>

UnpickleParam(b) == Param(b[1], b[2], b[3], b[4])

UnpickleSpec(b) == CommandSpec(b[1], [i \in 1..Len(b[2]) |-> UnpickleParam(b[2][i])])

\* What shelve reads back.
Unpickle(blob) ==
  [type |-> "NamespaceCacheEntry", key |-> blob[1], descr |-> blob[2],
   longdescr |-> blob[3],
   command_specs |-> [c \in {x[1] : x \in blob[4]} |->
                        UnpickleSpec((CHOOSE x \in blob[4] : x[1] = c)[2])]]

\* NamespaceCache.cache: None until the store is first read.
NotLoaded == [loaded |-> FALSE, entries |-> <<>>]

Loaded(entries) == [loaded |-> TRUE, entries |-> entries]

\* _load_cache_if_needed: dict(cache_shelve), or {} when the store cannot
\* be read.
load_cache_if_needed(mem, disk, read_ok) ==
  IF mem.loaded THEN mem
  ELSE IF read_ok THEN Loaded([k \in DOMAIN disk |-> Unpickle(disk[k])])
  ELSE Loaded(<<>>)

Put(f, k, v) == (k :> v) @@ f

----------------------------------------------------------------------------
(* The state *)

VARIABLES
  query,       \* argv[1] of the process: the command asked for
  argv,        \* argv[2:], the tokens typed so far
  pc,          \* "typing", then "done" once main has run
  outcome,     \* what main left
  namespaces,  \* __NAMESPACES of the running process
  cache,       \* System.cache.cache of the running process
  shelf,       \* the store on disk (clr_command_cache)
  returned,    \* what the last cache.get returned
  invocations  \* the invocations running side by side on one store

vars == <<query, argv, pc, outcome, namespaces, cache, shelf, returned, invocations>>

\* The length of the longest token list typed.
MaxArgs == 4

\* The queries run, and the tokens typed after each.
Queries ==
  { <<"system", "argtest">>, <<"system", "argtest2">>, <<"demo", "pair">>,
    <<"demo", "paint">>, <<"demo", "pick">>, <<"demo", "mix">>, <<"tools", "scale">> }

Tokens(q) ==
  IF q[2] = "argtest"
  THEN { <<"1">>, <<"x">>, Flag(<<"b">>), Flag(<<"c">>), Flag(<<"d">>),
         Flag(<<"e">>), NoFlag(<<"e">>), Flag(<<"f">>), NoFlag(<<"f">>) }
  ELSE IF q[2] = "argtest2"
  THEN { <<"1">>, <<"x">>, Flag(<<"a">>), Flag(<<"d">>), Flag(<<"e">>), Flag(<<"f">>) }
  ELSE IF q[2] = "pair"
  THEN { <<"1">>, <<"x">>, Flag(<<"a">>), Flag(<<"b">>), <<"-","-","b","=","x">> }
  ELSE IF q[2] \in {"paint", "pick"}
  THEN { <<"x">>, <<"r","e","d">>, <<"B","i","g">>, Flag(<<"a">>), Flag(<<"c","o","l">>) }
  ELSE IF q[2] \in {"topic", "stack", "opts", "early", "only"}
  THEN { <<"1">>, Flag(<<"a">>) }
  ELSE IF q[2] = "mix"
  THEN { <<"x">>, <<"r","e","d">>, <<"B","i","g">>, Flag(<<"c","o","l">>),
         Flag(<<"s","z">>) }
  ELSE { <<"1">>, <<"x">>, <<"2",".","5">>, Flag(<<"a">>), Flag(<<"k">>) }

Init ==
  /\ query \in Queries
  /\ argv = <<>>
  /\ pc = "typing"
  /\ outcome = NoOutcome
  /\ namespaces = <<>>
  /\ cache = NotLoaded
  /\ shelf = <<>>
  /\ returned = [type |-> "none"]
  /\ invocations = <<>>

\* The user types one more token.
Type(t) ==
  /\ pc = "typing"
  /\ Len(argv) < MaxArgs
  /\ argv' = Append(argv, t)
  /\ UNCHANGED <<query, pc, outcome, namespaces, cache, shelf, returned, invocations>>

\* The process runs main on what was typed, and exits.
Run(ret, beeline) ==
  /\ pc = "typing"
  /\ pc' = "done"
  /\ outcome' = main(namespaces, query, argv, ret, beeline)
  /\ namespaces' = resolve_command(namespaces, query).registry
  /\ UNCHANGED <<query, argv, cache, shelf, returned, invocations>>

Next ==
  \/ \E t \in Tokens(query) : Type(t)
  \/ \E ret \in Returns(query[1], query[2]), beeline \in Telemetry : Run(ret, beeline)

Spec == Init /\ [][Next]_vars

\* The runs of main that meet the telemetry calls of lines 92-114 with and
\* without a cmdinit: the queries of a namespace that has one (help, which
\* also declares commands the grammar does not support) and of one that has
\* none (tools).
TelemetryQueries ==
  { <<"help", "topic">>, <<"help", "stack">>, <<"help", "opts">>, <<"help", "early">>,
    <<"help", "only">>,
    <<"tools", "scale">> }

TelemetryInit ==
  /\ query \in TelemetryQueries
  /\ argv = <<>>
  /\ pc = "typing"
  /\ outcome = NoOutcome
  /\ namespaces = <<>>
  /\ cache = NotLoaded
  /\ shelf = <<>>
  /\ returned = [type |-> "none"]
  /\ invocations = <<>>

TelemetrySpec == TelemetryInit /\ [][Next]_vars

----------------------------------------------------------------------------
(* The metadata cache: System.cache, one NamespaceCache per process, over  *)
(* the store clr_command_cache that outlives the processes.                *)

\* The keys cache.get is called with.
CacheKeys == NAMESPACE_KEYS

CacheInit ==
  /\ query = <<"system", "help">>
  /\ argv = <<>>
  /\ pc = "cache"
  /\ outcome = NoOutcome
  /\ namespaces = <<>>
  /\ cache = NotLoaded
  /\ shelf = <<>>
  /\ returned = [type |-> "none"]
  /\ invocations = <<>>

\* _load_and_sync_entry whose write is outside a try: a store that cannot be
\* written raises.
LoadAndSyncEntryUnguarded(namespace_key, mem, registry, write_ok) ==
  /\ namespaces' = registry
  /\ IF registry[namespace_key].type = "ErrorLoadingNamespace"
     THEN /\ returned' = registry[namespace_key]
          /\ cache' = mem
          /\ shelf' = shelf
     ELSE /\ returned' = IF write_ok
                         THEN NamespaceCacheEntry_create(registry[namespace_key])
                         ELSE [type |-> "raise", key |-> namespace_key,
                               error |-> "OSError"]
          /\ cache' = Loaded(Put(mem.entries, namespace_key,
                                 NamespaceCacheEntry_create(registry[namespace_key])))
          /\ shelf' = IF write_ok
                      THEN Put(shelf, namespace_key,
                               Pickle(NamespaceCacheEntry_create(registry[namespace_key])))
                      ELSE shelf

\* _load_and_sync_entry without the test for ErrorLoadingNamespace: the
\* record of a failed load is cached like any other.
LoadAndSyncEntryCachingErrors(namespace_key, mem, registry, write_ok) ==
  /\ namespaces' = registry
  /\ returned' = NamespaceCacheEntry_create(registry[namespace_key])
  /\ cache' = Loaded(Put(mem.entries, namespace_key,
                         NamespaceCacheEntry_create(registry[namespace_key])))
  /\ shelf' = IF write_ok
              THEN Put(shelf, namespace_key,
                       Pickle(NamespaceCacheEntry_create(registry[namespace_key])))
              ELSE shelf

\* _load_and_sync_entry(namespace_key) (lines 495-511), mem the cache that
\* _load_cache_if_needed left and registry __NAMESPACES after get_namespace;
\* write_ok: whether the store could be written.
LoadAndSyncEntry(namespace_key, mem, registry, write_ok) ==
  /\ namespaces' = registry
  /\ IF registry[namespace_key].type = "ErrorLoadingNamespace"
     THEN /\ returned' = registry[namespace_key]
          /\ cache' = mem
          /\ shelf' = shelf
     ELSE /\ returned' = NamespaceCacheEntry_create(registry[namespace_key])
          /\ cache' = Loaded(Put(mem.entries, namespace_key,
                                 NamespaceCacheEntry_create(registry[namespace_key])))
          /\ shelf' = IF write_ok
                      THEN Put(shelf, namespace_key,
                               Pickle(NamespaceCacheEntry_create(registry[namespace_key])))
                      ELSE shelf

\* get that never finds the key in self.cache.
GetMissed(namespace_key, mem, write_ok) ==
  IF Raises(namespaces, namespace_key)
  THEN /\ returned' = load_namespace(namespace_key)
       /\ cache' = mem
       /\ UNCHANGED <<namespaces, shelf>>
  ELSE LoadAndSyncEntry(namespace_key, mem, get_namespace(namespaces, namespace_key),
                        write_ok)

\* get(namespace_key) after _load_cache_if_needed (lines 471-473); the
\* exception of get_namespace (line 496) leaves get.
GetLoaded(namespace_key, mem, write_ok) ==
  IF namespace_key \in DOMAIN mem.entries
  THEN /\ returned' = mem.entries[namespace_key]
       /\ cache' = mem
       /\ UNCHANGED <<namespaces, shelf>>
  ELSE IF Raises(namespaces, namespace_key)
  THEN /\ returned' = load_namespace(namespace_key)
       /\ cache' = mem
       /\ UNCHANGED <<namespaces, shelf>>
  ELSE LoadAndSyncEntry(namespace_key, mem, get_namespace(namespaces, namespace_key),
                        write_ok)

\* Where the process is after a call that left r: an exception or
\* sys.exit ends it.
After(r) == IF r.type \in {"raise", "raised", "exit"} THEN "exited" ELSE "cache"

\* NamespaceCache.get(namespace_key) (lines 465-473); read_ok, write_ok:
\* whether the store can be read and written at that moment.
Get(namespace_key, read_ok, write_ok) ==
  IF namespace_key = "system"
  THEN /\ namespaces' = get_namespace(namespaces, "system")
       /\ returned' = namespaces'["system"]
       /\ UNCHANGED <<cache, shelf>>
  ELSE GetLoaded(namespace_key, load_cache_if_needed(cache, shelf, read_ok), write_ok)

\* The process calls cache.get(namespace_key).
CacheGet(namespace_key, read_ok, write_ok) ==
  /\ pc = "cache"
  /\ Get(namespace_key, read_ok, write_ok)
  /\ pc' = After(returned')
  /\ UNCHANGED <<query, argv, outcome, invocations>>

\* NamespaceCache.clear() (lines 475-478): a new empty store; self.cache is
\* left as it is.
CacheClear ==
  /\ pc = "cache"
  /\ shelf' = <<>>
  /\ UNCHANGED <<query, argv, pc, outcome, namespaces, cache, returned, invocations>>

\* The process exits and the next one starts: nothing is loaded, the store
\* is as it was left.
NewProcess ==
  /\ pc \in {"cache", "exited"}
  /\ pc' = "cache"
  /\ namespaces' = <<>>
  /\ cache' = NotLoaded
  /\ returned' = [type |-> "none"]
  /\ outcome' = NoOutcome
  /\ UNCHANGED <<query, argv, shelf, invocations>>

\* NAMESPACE_KEYS in its order (sorted), as names.
RECURSIVE Atoms(_)
Atoms(texts) ==
  IF Len(texts) = 0 THEN <<>> ELSE <<Atom(Head(texts))>> \o Atoms(Tail(texts))

SortedKeys == Atoms(Sorted(Texts_(NAMESPACE_KEYS)))

\* main runs "clr help" in a new process: resolve_command loads system and
\* cmd_help, given no query, starts the listing (lines 714-716).
HelpStart ==
  /\ pc = "cache"
  /\ namespaces = <<>>
  /\ ~cache.loaded
  /\ pc' = "help"
  /\ namespaces' = get_namespace(namespaces, "system")
  /\ returned' = [type |-> "listing"]
  /\ UNCHANGED <<query, argv, outcome, cache, shelf, invocations>>

\* The key the listing is at: the one after the key it got last.
Listed ==
  IF returned.type = "listing" THEN 1
  ELSE 1 + CHOOSE i \in 1..Len(SortedKeys) : SortedKeys[i] = returned.key

\* One turn of the loop of cmd_help (lines 716-722): cache.get of the next
\* key, whose descr is printed.  An exception leaves cmd_help and main
\* exits with 999 (lines 109-112); after the last key cmd_help returns and
\* main exits with 0.
HelpStep(read_ok, write_ok) ==
  /\ pc = "help"
  /\ Get(SortedKeys[Listed], read_ok, write_ok)
  /\ IF returned'.type = "raise"
     THEN /\ pc' = "exited"
          /\ outcome' = Outcome(999, TRUE, <<>>, Raised(returned'.error, <<>>, <<>>))
     ELSE IF Listed = Len(SortedKeys)
     THEN /\ pc' = "exited"
          /\ outcome' = Outcome(0, TRUE, <<>>, NoErr)
     ELSE UNCHANGED <<pc, outcome>>
  /\ UNCHANGED <<query, argv, invocations>>

\* The queries resolved: "", ":pair", "b", "dem", "demox:pair", "hole",
\* "xyz", "helps", "help", "argtest", "demo", "tools", "demo:pair",
\* "help:topic", "system:help", "broken:pair", "bare:pair", "bare",
\* "demo:topic".
ResolveTexts ==
  { <<>>, <<":","p","a","i","r">>, <<"b">>, <<"d","e","m">>,
    <<"d","e","m","o","x",":","p","a","i","r">>, <<"h","o","l","e">>,
    <<"x","y","z">>, <<"h","e","l","p","s">>, <<"h","e","l","p">>,
    <<"a","r","g","t","e","s","t">>, <<"d","e","m","o">>,
    <<"t","o","o","l","s">>, <<"d","e","m","o",":","p","a","i","r">>,
    <<"h","e","l","p",":","t","o","p","i","c">>,
    <<"s","y","s","t","e","m",":","h","e","l","p">>,
    <<"b","r","o","k","e","n",":","p","a","i","r">>,
    <<"b","a","r","e",":","p","a","i","r">>, <<"b","a","r","e">>,
    <<"d","e","m","o",":","t","o","p","i","c">> }

\* get_namespace(namespace_key) (lines 74-79), called by the process.
GetNamespace(namespace_key) ==
  /\ pc = "cache"
  /\ namespaces' = get_namespace(namespaces, namespace_key)
  /\ returned' = IF Raises(namespaces, namespace_key) THEN load_namespace(namespace_key)
                 ELSE namespaces'[namespace_key]
  /\ pc' = After(returned')
  /\ UNCHANGED <<query, argv, outcome, cache, shelf, invocations>>

\* resolve_command(text) (lines 93-129), as main calls it.
Resolve(text) ==
  /\ pc = "cache"
  /\ namespaces' = resolve_command(namespaces, SplitQuery(text)).registry
  /\ returned' = resolve_query(namespaces, text)
  /\ pc' = After(returned')
  /\ UNCHANGED <<query, argv, outcome, cache, shelf, invocations>>

\* The queries a process of the cache machine resolves: "tools:scale",
\* "broken:pair", "bare".
CacheTexts ==
  { <<"t","o","o","l","s",":","s","c","a","l","e">>,
    <<"b","r","o","k","e","n",":","p","a","i","r">>, <<"b","a","r","e">> }

CacheNext ==
  \/ \E namespace_key \in CacheKeys, read_ok \in BOOLEAN, write_ok \in BOOLEAN :
       CacheGet(namespace_key, read_ok, write_ok)
  \/ CacheClear
  \/ NewProcess
  \/ \E namespace_key \in CacheKeys : GetNamespace(namespace_key)
  \/ \E text \in CacheTexts : Resolve(text)
  \/ HelpStart
  \/ \E read_ok \in BOOLEAN, write_ok \in BOOLEAN : HelpStep(read_ok, write_ok)

CacheSpec == CacheInit /\ [][CacheNext]_vars

\* A process that resolves queries.
ResolveNext ==
  \/ \E text \in ResolveTexts : Resolve(text)
  \/ \E namespace_key \in NAMESPACE_KEYS : GetNamespace(namespace_key)
  \/ NewProcess

ResolveSpec == CacheInit /\ [][ResolveNext]_vars

----------------------------------------------------------------------------
(* Several invocations at once on one store.  Every access is a with       *)
(* block of its own: shelve.open, one read or one change, close.  The      *)
(* store is a dbm file that one process has open at a time: shelve.open of *)
(* a store another invocation has open raises.                             *)

\* The invocations that run side by side.
MaxInvocations == 2

Procs == 1..MaxInvocations

\* The keys they ask for.
SharedKeys == {"demo", "tools", "broken"}

\* An invocation that has called nothing yet.
Fresh ==
  [pc |-> "idle", key |-> "none", namespaces |-> <<>>, cache |-> NotLoaded,
   returned |-> [type |-> "none"]]

SharedInit ==
  /\ query = <<"system", "help">>
  /\ argv = <<>>
  /\ pc = "shared"
  /\ outcome = NoOutcome
  /\ namespaces = <<>>
  /\ cache = NotLoaded
  /\ shelf = <<>>
  /\ returned = [type |-> "none"]
  /\ invocations = [p \in Procs |-> Fresh]

\* Some invocation is inside a with block of the store.
StoreOpen ==
  \E p \in Procs : invocations[p].pc \in {"reading", "writing", "clearing"}

\* get from line 471 on, mem being self.cache: the entry of the copy, or
\* the load of _load_and_sync_entry up to the with block of line 506.
Lookup(inv, key, mem, registry) ==
  IF key \in DOMAIN mem.entries
  THEN [inv EXCEPT !.pc = "idle", !.key = key, !.cache = mem,
                   !.returned = mem.entries[key]]
  ELSE IF registry[key].type = "ErrorLoadingNamespace"
  THEN [inv EXCEPT !.pc = "idle", !.key = key, !.cache = mem,
                   !.namespaces = registry, !.returned = registry[key]]
  ELSE [inv EXCEPT !.pc = "loaded", !.key = key, !.namespaces = registry,
                   !.cache = Loaded(Put(mem.entries, key,
                                        NamespaceCacheEntry_create(registry[key])))]

Step(p, inv) ==
  /\ invocations' = (p :> inv) @@ invocations
  /\ UNCHANGED <<query, argv, pc, outcome, namespaces, cache, returned>>

\* Invocation p calls cache.get(key).  A copy it has is looked in; without
\* one it opens the store, and a store that is open elsewhere raises in
\* shelve.open: the copy is {} (line 490).
SharedGet(p, key) ==
  /\ invocations[p].pc = "idle"
  /\ IF invocations[p].cache.loaded
     THEN Step(p, Lookup(invocations[p], key, invocations[p].cache,
                         get_namespace(invocations[p].namespaces, key)))
     ELSE IF StoreOpen
     THEN Step(p, Lookup(invocations[p], key, Loaded(<<>>),
                         get_namespace(invocations[p].namespaces, key)))
     ELSE Step(p, [invocations[p] EXCEPT !.pc = "reading", !.key = key])
  /\ UNCHANGED shelf

\* dict(cache_shelve) and the end of the with block of line 487.
SharedRead(p) ==
  /\ invocations[p].pc = "reading"
  /\ Step(p, Lookup(invocations[p], invocations[p].key,
                    Loaded([k \in DOMAIN shelf |-> Unpickle(shelf[k])]),
                    get_namespace(invocations[p].namespaces, invocations[p].key)))
  /\ UNCHANGED shelf

\* shelve.open of line 506: a store open elsewhere raises, the except of
\* line 508 passes and the entry is returned.
SharedOpenForWrite(p) ==
  /\ invocations[p].pc = "loaded"
  /\ IF StoreOpen
     THEN Step(p, [invocations[p] EXCEPT
                     !.pc = "idle",
                     !.returned = invocations[p].cache.entries[invocations[p].key]])
     ELSE Step(p, [invocations[p] EXCEPT !.pc = "writing"])
  /\ UNCHANGED shelf

\* cache_shelve[namespace_key] = entry and the end of the with block.
SharedWrite(p) ==
  /\ invocations[p].pc = "writing"
  /\ shelf' = Put(shelf, invocations[p].key,
                  Pickle(invocations[p].cache.entries[invocations[p].key]))
  /\ Step(p, [invocations[p] EXCEPT
                !.pc = "idle",
                !.returned = invocations[p].cache.entries[invocations[p].key]])

\* Invocation p calls clear() (lines 475-478): shelve.open(flag="n") empties
\* the store; it is in no try, and a store open elsewhere raises out of
\* clear.
SharedClear(p) ==
  /\ invocations[p].pc = "idle"
  /\ IF StoreOpen
     THEN /\ Step(p, [invocations[p] EXCEPT
                        !.pc = "exited",
                        !.returned = [type |-> "raise", key |-> "none",
                                      error |-> "dbm.error"]])
          /\ UNCHANGED shelf
     ELSE /\ Step(p, [invocations[p] EXCEPT !.pc = "clearing"])
          /\ shelf' = <<>>

\* The end of the with block of clear.
SharedClearClose(p) ==
  /\ invocations[p].pc = "clearing"
  /\ Step(p, [invocations[p] EXCEPT !.pc = "idle"])
  /\ UNCHANGED shelf

\* Invocation p ends and another one starts in its place.
SharedNewProcess(p) ==
  /\ invocations[p].pc \in {"idle", "exited"}
  /\ invocations[p] # Fresh
  /\ Step(p, Fresh)
  /\ UNCHANGED shelf

SharedNext ==
  \E p \in Procs :
    \/ \E key \in SharedKeys : SharedGet(p, key)
    \/ SharedRead(p)
    \/ SharedOpenForWrite(p)
    \/ SharedWrite(p)
    \/ SharedClear(p)
    \/ SharedClearClose(p)
    \/ SharedNewProcess(p)

SharedSpec == SharedInit /\ [][SharedNext]_vars

----------------------------------------------------------------------------
(* Completion: System.cmd_smart_complete and System.cmd_complete_arg, as   *)
(* the shell calls them while a command line is typed.                     *)

LowerChar(c) ==
  IF \E i \in 1..26 : UpperLetters[i] = c
  THEN LowerLetters[CHOOSE i \in 1..26 : UpperLetters[i] = c]
  ELSE c

\* str.lower
Lower(s) == [i \in 1..Len(s) |-> LowerChar(s[i])]

\* is_positional(arg) (lines 595-596)
is_positional(arg) == ~StartsWith(arg, <<"-", "-">>)

\* len(list(takewhile(is_positional, previous_args))) (line 598)
RECURSIVE existing_positional_args(_)
existing_positional_args(previous_args) ==
  IF Len(previous_args) = 0 \/ ~is_positional(Head(previous_args)) THEN 0
  ELSE 1 + existing_positional_args(Tail(previous_args))

\* arg_names of a parameter (lines 627-631)
arg_names(param) ==
  IF param.default.t = "bool"
  THEN << Flag(param.name), NoFlag(param.name) >>
  ELSE << Flag(param.name) >>

Among(arg, args) == \E i \in 1..Len(args) : args[i] = arg

\* The parameter is given by the tokens before the current one (lines
\* 637-638); param_index counts from 0.
Present(param, param_index, previous_args) ==
  \/ existing_positional_args(previous_args) > param_index
  \/ \E i \in 1..Len(arg_names(param)) : Among(arg_names(param)[i], previous_args)

\* missing_required_args (required = TRUE) and missing_optional_args
\* (required = FALSE) after the scan of lines 620-640, from parameter k on.
RECURSIVE missing_args(_, _, _, _)
missing_args(parameters, previous_args, required, k) ==
  IF k > Len(parameters) THEN <<>>
  ELSE (IF /\ parameters[k].kind # "VAR_POSITIONAL"
           /\ (parameters[k].default = Empty) = required
           /\ ~Present(parameters[k], k - 1, previous_args)
        THEN arg_names(parameters[k]) ELSE <<>>)
       \o missing_args(parameters, previous_args, required, k + 1)

\* boolean_options, numerical_options, enum_options (lines 629-635)
boolean_options(parameters) ==
  UNION { {Flag(parameters[k].name), NoFlag(parameters[k].name)} :
          k \in {i \in 1..Len(parameters) :
                   /\ parameters[i].kind # "VAR_POSITIONAL"
                   /\ parameters[i].default.t = "bool"} }

numerical_options(parameters) ==
  { Flag(parameters[k].name) :
    k \in {i \in 1..Len(parameters) :
             /\ parameters[i].kind # "VAR_POSITIONAL"
             /\ parameters[i].default.t \in {"int", "float"}} }

enum_options(parameters) ==
  { k \in 1..Len(parameters) :
      /\ parameters[k].kind # "VAR_POSITIONAL"
      /\ parameters[k].default.t \notin {"bool", "int", "float"}
      /\ IsEnumAnnotation(parameters[k].annotation) }

\* print_for_complete(current, options) (lines 759-765): the options that
\* start with current, in their order.
RECURSIVE print_for_complete(_, _)
print_for_complete(current, options) ==
  IF Len(options) = 0 THEN <<>>
  ELSE (IF StartsWith(Head(options), current) THEN <<Head(options)>> ELSE <<>>)
       \o print_for_complete(current, Tail(options))

\* The names of the members of an enumeration that start with current
\* upper-cased, printed lower-cased (lines 653-655).
RECURSIVE enum_values(_, _)
enum_values(members, current) ==
  IF Len(members) = 0 THEN <<>>
  ELSE (IF StartsWith(Head(members), Upper(current))
        THEN <<Lower(Head(members))>> ELSE <<>>)
       \o enum_values(Tail(members), current)

\* has_var_positional (lines 619-623)
has_var_positional(parameters) ==
  \E k \in 1..Len(parameters) : parameters[k].kind = "VAR_POSITIONAL"

\* What a completion leaves: the words printed on stdout and the value
\* returned (None is 0, the exit code main makes of it).
Completion(out, status) == [type |-> "completion", out |-> out, status |-> status]

\* Lines 661-681, the previous token not being a flag that waits for its
\* value: the optional flags that are missing are printed first, whatever
\* is missing among the required ones; then the first missing required flag
\* is printed, unfiltered, or 2 is returned for a command with *args.
suggest(current_arg, required, optional, var_positional) ==
  IF Len(required) > 0
  THEN IF var_positional
       THEN Completion(print_for_complete(current_arg, optional), 2)
       ELSE Completion(print_for_complete(current_arg, optional) \o <<required[1]>>, 0)
  ELSE Completion(print_for_complete(current_arg, optional),
                  IF var_positional THEN 2 ELSE 0)

\* The previous token is a flag that expects a value (lines 643-647).
AwaitsValue(parameters, previous_args) ==
  /\ Len(previous_args) > 0
  /\ ~is_positional(previous_args[Len(previous_args)])
  /\ previous_args[Len(previous_args)] \notin boolean_options(parameters)

\* cmd_smart_complete from line 592 on: existing_args is the tokens after
\* the command name, the last one the word being typed.
smart_complete(parameters, existing_args) ==
  LET current_arg == existing_args[Len(existing_args)]
      previous_args == SubSeq(existing_args, 1, Len(existing_args) - 1)
      last == previous_args[Len(previous_args)]
  IN IF AwaitsValue(parameters, previous_args)
     THEN IF last \in numerical_options(parameters) THEN Completion(<<>>, 0)
          ELSE IF \E k \in enum_options(parameters) : Flag(parameters[k].name) = last
          THEN Completion(
                 enum_values(
                   Members(parameters[CHOOSE k \in enum_options(parameters) :
                                        Flag(parameters[k].name) = last].annotation),
                   current_arg), 0)
          ELSE Completion(<<>>, 2)
     ELSE suggest(current_arg,
                  missing_args(parameters, previous_args, TRUE, 1),
                  missing_args(parameters, previous_args, FALSE, 1),
                  has_var_positional(parameters))

\* options of cmd_complete_arg (lines 556-564)
RECURSIVE complete_arg_options(_, _)
complete_arg_options(parameters, bools_only) ==
  IF Len(parameters) = 0 THEN <<>>
  ELSE (IF ~bools_only \/ Head(parameters).default.t = "bool"
        THEN <<Flag(Head(parameters).name)>> ELSE <<>>)
       \o (IF Head(parameters).default.t = "bool"
           THEN <<NoFlag(Head(parameters).name)>> ELSE <<>>)
       \o complete_arg_options(Tail(parameters), bools_only)

\* cmd_complete_arg for a command that resolves (lines 548-567): options is
\* built, and line 567 hands print_for_complete the name results, which
\* nothing defines: NameError.
complete_arg(parameters, partial, bools_only) ==
  [type |-> "raised", error |-> "NameError", out |-> <<>>,
   partial |-> partial, bools_only |-> bools_only,
   options |-> complete_arg_options(parameters, bools_only)]

\* The commands completed.
CompleteQueries ==
  { <<"system", "argtest">>, <<"system", "argtest2">>, <<"demo", "pair">>,
    <<"demo", "paint">>, <<"tools", "scale">> }

\* The words on the command line: values, flags, the start of a flag and
\* the empty word the shell passes after a space.
CompleteTokens(q) ==
  IF q[2] = "argtest"
  THEN { <<>>, <<"1">>, <<"-", "-">>, Flag(<<"a">>), Flag(<<"b">>), Flag(<<"c">>),
         Flag(<<"e">>), NoFlag(<<"f">>) }
  ELSE IF q[2] = "argtest2"
  THEN { <<>>, <<"1">>, <<"-", "-">>, Flag(<<"a">>), Flag(<<"d">>), Flag(<<"f">>),
         Flag(<<"g">>) }
  ELSE IF q[2] = "pair"
  THEN { <<>>, <<"1">>, <<"-", "-">>, Flag(<<"a">>), Flag(<<"b">>) }
  ELSE IF q[2] = "paint"
  THEN { <<>>, <<"1">>, <<"r">>, Flag(<<"a">>), Flag(<<"c","o","l">>) }
  ELSE { <<>>, <<"1">>, <<"-", "-">>, Flag(<<"a">>), Flag(<<"k">>) }

\* The partial texts cmd_complete_arg is given.
Partials == { <<>>, <<"-", "-">>, <<"-", "-", "n", "o">>, <<" ", "-", "-", "e">> }

CompleteInit ==
  /\ query \in CompleteQueries
  /\ argv = <<>>
  /\ pc = "completing"
  /\ outcome = NoOutcome
  /\ namespaces = <<>>
  /\ cache = NotLoaded
  /\ shelf = <<>>
  /\ returned = [type |-> "none"]
  /\ invocations = <<>>

\* One more word on the command line.
CompleteType(t) ==
  /\ pc = "completing"
  /\ Len(argv) < MaxArgs
  /\ argv' = Append(argv, t)
  /\ UNCHANGED <<query, pc, outcome, namespaces, cache, shelf, returned, invocations>>

\* The shell asks for the completions of the last word: clr smart_complete
\* clr <query> <words>.
SmartComplete ==
  /\ pc = "completing"
  /\ Len(argv) > 0
  /\ pc' = "smart_completed"
  /\ returned' = smart_complete(
                   load_namespace(query[1]).command_specs[query[2]].signature, argv)
  /\ UNCHANGED <<query, argv, outcome, namespaces, cache, shelf, invocations>>

\* clr complete_arg <query> <partial> [--bools_only]
CompleteArg(partial, bools_only) ==
  /\ pc = "completing"
  /\ argv = <<>>
  /\ pc' = "arg_completed"
  /\ returned' = complete_arg(
                   load_namespace(query[1]).command_specs[query[2]].signature,
                   partial, bools_only)
  /\ UNCHANGED <<query, argv, outcome, namespaces, cache, shelf, invocations>>

CompleteNext ==
  \/ \E t \in CompleteTokens(query) : CompleteType(t)
  \/ SmartComplete
  \/ \E partial \in Partials, bools_only \in BOOLEAN : CompleteArg(partial, bools_only)

CompleteSpec == CompleteInit /\ [][CompleteNext]_vars


----------------------------------------------------------------------------
(* The invocation as the user wrote it.  A token that starts with "--" is  *)
(* a flag; the flag of a parameter that takes a value takes the token      *)
(* after it, unless that is a flag too or the value is attached with "=";  *)
(* every other token is a positional token.                                *)

Done == pc = "done"

\* The signature of the command the query names.
Sig == load_namespace(query[1]).command_specs[query[2]].signature

IsFlagToken(t) == Len(t) >= 2 /\ t[1] = "-" /\ t[2] = "-"

\* The parameters whose default is a boolean: their flags take no value.
IsBoolParam(p) == p.default.t = "bool"

\* The flag --name or --name=VALUE of the parameter name.
FlagOf(t, name) == IsFlagToken(t) /\ BeforeEq(t) = Flag(name)

\* Token i is the value of the flag before it.
IsFlagValue(sig, tokens, i) ==
  /\ i > 1
  /\ ~IsFlagToken(tokens[i])
  /\ \E k \in 1..Len(sig) : /\ ~IsBoolParam(sig[k])
                            /\ sig[k].kind # "VAR_POSITIONAL"
                            /\ tokens[i - 1] = Flag(sig[k].name)

\* Where the positional tokens are, in the order typed.
PositionalIndices(sig, tokens) ==
  SelectSeq([i \in 1..Len(tokens) |-> i],
            LAMBDA i : ~IsFlagToken(tokens[i]) /\ ~IsFlagValue(sig, tokens, i))

\* The positional tokens, in the order typed.
PositionalTokens(sig, tokens) ==
  [j \in 1..Len(PositionalIndices(sig, tokens)) |->
     tokens[PositionalIndices(sig, tokens)[j]]]

\* The parameters a positional token can supply, in declaration order: all
\* but the booleans and the variadic one.
Suppliable(sig) ==
  SelectSeq(sig, LAMBDA p : ~IsBoolParam(p) /\ p.kind # "VAR_POSITIONAL")

\* The parameter name is given by its flag.
ByFlag(tokens, name) == \E i \in 1..Len(tokens) : FlagOf(tokens[i], name)

\* The value the flag of name is given, where it is given once.
FlagValue(tokens, name) ==
  LET i == CHOOSE i \in 1..Len(tokens) : FlagOf(tokens[i], name)
  IN IF tokens[i] # Flag(name) THEN AfterEq(tokens[i]).s ELSE tokens[i + 1]

\* The k-th suppliable parameter is given positionally.
ByPosition(sig, tokens, k) == k <= Len(PositionalTokens(sig, tokens))

Required(p) == p.default = Empty /\ p.kind # "VAR_POSITIONAL"

Variadic(sig) == \E k \in 1..Len(sig) : sig[k].kind = "VAR_POSITIONAL"

\* Every flag that takes a value is followed by one.
FlagsHaveValues(sig, tokens) ==
  \A i \in 1..Len(tokens) :
    (\E k \in 1..Len(sig) : /\ ~IsBoolParam(sig[k])
                            /\ sig[k].kind # "VAR_POSITIONAL"
                            /\ tokens[i] = Flag(sig[k].name))
      => i < Len(tokens) /\ ~IsFlagToken(tokens[i + 1])

\* The parse that main ran, again, from the same grammar.
Parsed(tokens) ==
  parse_args(query[1], load_namespace(query[1]).command_specs, query[2], tokens)

\* A type function refused a value: int, float or enum_parser.
ConversionFailed ==
  outcome.error.what \in {"invalid int value", "invalid float value",
                          "AssertionError", "AttributeError"}

----------------------------------------------------------------------------
(* C1 *)

AllRequired(sig) == Len(sig) > 0 /\ \A i \in 1..Len(sig) : Required(sig[i])

Perms(n) == {f \in [1..n -> 1..n] : \A i, j \in 1..n : f[i] = f[j] => i = j}

\* --name VALUE for the k-th value on, in the order f.
RECURSIVE NamedTokens(_, _, _, _)
NamedTokens(sig, values, f, k) ==
  IF k > Len(values) THEN <<>>
  ELSE <<Flag(sig[f[k]].name), values[f[k]]>> \o NamedTokens(sig, values, f, k + 1)

PurelyPositional(tokens) == \A i \in 1..Len(tokens) : ~IsFlagToken(tokens[i])

\* C1: for a command whose parameters are all required scalars, the values
\* given purely positionally in declaration order and the same values given
\* purely as --name VALUE, in any order of the flags, bind to identical call
\* arguments: main called the command on the positional tokens exactly when
\* the named tokens bind, and with the arguments they bind.
C1_PositionalAndNamedBindAlike ==
  (Done /\ AllRequired(Sig) /\ Len(argv) = Len(Sig) /\ PurelyPositional(argv))
    => \A f \in Perms(Len(Sig)) :
         /\ outcome.called <=> Parsed(NamedTokens(Sig, argv, f, 1)).k = "bound"
         /\ outcome.called
              => Parsed(NamedTokens(Sig, argv, f, 1)).arguments = outcome.arguments

\* demo:pair 1 x was called with a = "1", b = "x", as --b x --a 1 binds.
C1_Witness ==
  /\ Done
  /\ query = <<"demo", "pair">>
  /\ argv = << <<"1">>, <<"x">> >>
  /\ outcome.called
  /\ outcome.arguments = (<<"a">> :> StrV(<<"1">>)) @@ (<<"b">> :> StrV(<<"x">>))
  /\ Parsed(<< Flag(<<"b">>), <<"x">>, Flag(<<"a">>), <<"1">> >>).k = "bound"

----------------------------------------------------------------------------
(* C2 *)

\* The indices, among the suppliable parameters, of the required ones.
RequiredIndices(sig) ==
  {k \in 1..Len(Suppliable(sig)) : Required(Suppliable(sig)[k])}

\* The k-th suppliable parameter is given positionally and by its flag.
Both(sig, tokens, k) ==
  ByPosition(sig, tokens, k) /\ ByFlag(tokens, Suppliable(sig)[k].name)

\* The k-th suppliable parameter is given in neither form.
Neither(sig, tokens, k) ==
  ~ByPosition(sig, tokens, k) /\ ~ByFlag(tokens, Suppliable(sig)[k].name)

AnyBoth(sig, tokens) == \E k \in 1..Len(Suppliable(sig)) : Both(sig, tokens, k)

\* Both flags of a boolean parameter are given.
BoolConflict(sig, tokens) ==
  \E k \in 1..Len(sig), i, j \in 1..Len(tokens) :
    IsBoolParam(sig[k]) /\ tokens[i] = Flag(sig[k].name) /\ tokens[j] = NoFlag(sig[k].name)

\* The positional tokens are typed next to one another.
Contiguous(sig, tokens) ==
  \A i, j \in 1..Len(tokens) :
    (/\ i < j
     /\ ~IsFlagToken(tokens[i]) /\ ~IsFlagValue(sig, tokens, i)
     /\ ~IsFlagToken(tokens[j]) /\ ~IsFlagValue(sig, tokens, j))
      => \A m \in i..j : ~IsFlagToken(tokens[m]) /\ ~IsFlagValue(sig, tokens, m)

\* The token list has no other defect than the one looked at: every flag has
\* its value, every value converts, no boolean is given both ways.
NoOtherDefect ==
  FlagsHaveValues(Sig, argv) /\ ~ConversionFailed /\ ~BoolConflict(Sig, argv)

\* C2 (as amended): for a required parameter of a command without a variadic
\* parameter, giving it both positionally and by its flag, or in neither
\* form, is refused: the command is not called and the exit status is 2 (1
\* when enum_parser raised).  With no other defect in the token list, the
\* error for "both" is the duplicate "not allowed with argument" when the
\* positional tokens are typed next to one another, and the error for
\* "neither" is the missing "one of the arguments ... is required", which
\* names the flag and the position of the first parameter that is missing.
C2_BothOrNeitherIsRefused ==
  (Done /\ ~Variadic(Sig)) =>
    \A k \in RequiredIndices(Sig) :
      /\ (Both(Sig, argv, k) \/ Neither(Sig, argv, k))
           => /\ ~outcome.called
              /\ outcome.status \in {1, 2}
              /\ outcome.status = 1
                   => outcome.error.what \in {"AssertionError", "AttributeError"}
      /\ (Both(Sig, argv, k) /\ NoOtherDefect /\ Contiguous(Sig, argv))
           => /\ outcome.status = 2
              /\ outcome.error.what = "not allowed with argument"
      /\ (Neither(Sig, argv, k) /\ ~AnyBoth(Sig, argv) /\ NoOtherDefect)
           => /\ outcome.status = 2
              /\ outcome.error.what = "one of the arguments is required"
              /\ (\A j \in RequiredIndices(Sig) : j < k => ~Neither(Sig, argv, j))
                   => outcome.error.other
                        = <<Flag(Suppliable(Sig)[k].name), Suppliable(Sig)[k].name>>

\* demo:pair 1 x --b x: b is given twice, the duplicate is refused.
C2_Witness ==
  /\ Done
  /\ query = <<"demo", "pair">>
  /\ argv = << <<"1">>, <<"x">>, Flag(<<"b">>), <<"x">> >>
  /\ Both(Sig, argv, 2)
  /\ ~outcome.called
  /\ outcome.status = 2
  /\ outcome.error.what = "not allowed with argument"

\* C2 as stated: with no other defect in the token list, a required
\* parameter given both ways fails with the duplicate-specification error,
\* wherever its flag is typed, and one given in neither form with the
\* missing-required error.
C2_AsStated ==
  (Done /\ ~Variadic(Sig) /\ NoOtherDefect) =>
    \A k \in RequiredIndices(Sig) :
      /\ Both(Sig, argv, k)
           => /\ ~outcome.called
              /\ outcome.status # 0
              /\ outcome.error.what = "not allowed with argument"
      /\ (Neither(Sig, argv, k) /\ ~AnyBoth(Sig, argv))
           => /\ ~outcome.called
              /\ outcome.status = 2
              /\ outcome.error.what = "one of the arguments is required"

----------------------------------------------------------------------------
(* C3 *)

\* The grammar of the command the query names.
Grammar == argument_parser(query[1], load_namespace(query[1]).command_specs, query[2])

\* The actions of the grammar that store into name.
ActionsOf(parser, name) == {i \in 1..Len(parser.actions) : parser.actions[i].dest = name}

HasToken(tokens, t) == \E i \in 1..Len(tokens) : tokens[i] = t

\* The grammar offers for name the flags --name (true) and --noname (false),
\* which exclude one another, and nothing else.
TwoFlags(parser, name) ==
  \E i, j \in ActionsOf(parser, name) :
    /\ ActionsOf(parser, name) = {i, j}
    /\ parser.actions[i].opts = << <<"-", "-">> \o name >>
    /\ parser.actions[j].opts = << <<"-", "-", "n", "o">> \o name >>
    /\ parser.actions[i].nargs = "0" /\ parser.actions[i].const = BoolV(TRUE)
    /\ parser.actions[j].nargs = "0" /\ parser.actions[j].const = BoolV(FALSE)
    /\ parser.actions[i].group = parser.actions[j].group
    /\ parser.actions[i].group # 0
    /\ ~parser.groups[parser.actions[i].group]

\* C3: for every optional parameter with a boolean default the grammar has
\* exactly the flags --name and --noname and no positional form; a call made
\* with --name binds true, with --noname false, with neither the declared
\* default; both flags in one invocation are a parse error (status 2, no
\* call).
C3_BooleanFlags ==
  Done =>
    \A k \in 1..Len(Sig) :
      IsBoolParam(Sig[k]) =>
        LET name == Sig[k].name
            yes == HasToken(argv, <<"-", "-">> \o name)
            no == HasToken(argv, <<"-", "-", "n", "o">> \o name)
        IN /\ TwoFlags(Grammar, name)
           /\ (yes /\ no) => ~outcome.called /\ outcome.status = 2
           /\ (outcome.called /\ yes) => outcome.arguments[name] = BoolV(TRUE)
           /\ (outcome.called /\ no) => outcome.arguments[name] = BoolV(FALSE)
           /\ (outcome.called /\ ~yes /\ ~no) => outcome.arguments[name] = Sig[k].default

\* argtest 1 1 --e --nof: e, False by default, is true; f, True by default,
\* is false.
C3_Witness ==
  /\ Done
  /\ query = <<"system", "argtest">>
  /\ argv = << <<"1">>, <<"1">>, Flag(<<"e">>), NoFlag(<<"f">>) >>
  /\ outcome.called
  /\ outcome.arguments[<<"e">>] = BoolV(TRUE)
  /\ outcome.arguments[<<"f">>] = BoolV(FALSE)

----------------------------------------------------------------------------
(* C4 *)

\* The value v converts to the type of the default of p.
ValidFor(p, v) ==
  /\ p.default.t = "int" => IsIntText(v)
  /\ p.default.t = "float" => IsFloatText(v)

\* Every flag typed is a flag of an optional parameter of the command, with
\* a value that converts where it takes one, and no boolean is given both
\* ways.
FlagsWellFormed(sig, tokens) ==
  /\ ~BoolConflict(sig, tokens)
  /\ \A i \in 1..Len(tokens) :
       IsFlagToken(tokens[i]) =>
         \E k \in 1..Len(sig) :
           /\ sig[k].default # Empty
           /\ IF IsBoolParam(sig[k])
              THEN tokens[i] \in {Flag(sig[k].name), NoFlag(sig[k].name)}
              ELSE /\ tokens[i] = Flag(sig[k].name)
                   /\ i < Len(tokens)
                   /\ ~IsFlagToken(tokens[i + 1])
                   /\ ValidFor(sig[k], tokens[i + 1])

\* The parameters before the variadic one, and the variadic one.
BeforeVariadic(sig) ==
  SelectSeq(sig, LAMBDA p : p.default = Empty /\ p.kind # "VAR_POSITIONAL")

VariadicName(sig) ==
  sig[CHOOSE k \in 1..Len(sig) : sig[k].kind = "VAR_POSITIONAL"].name

Texts(tokens) == [i \in 1..Len(tokens) |-> StrV(tokens[i])]

\* C4 as stated: for a command with a variadic parameter after r required
\* ones, a token list with r + N positional tokens (and well-formed flags,
\* wherever they are typed) calls the command with the first r tokens bound
\* to the required parameters in order and the variadic parameter bound to
\* the last N tokens, as text, in order: to the empty collection when N = 0.
C4_AsStated ==
  (Done /\ Variadic(Sig) /\ FlagsWellFormed(Sig, argv)
        /\ Len(PositionalTokens(Sig, argv)) >= Len(BeforeVariadic(Sig)))
    => LET pos == PositionalTokens(Sig, argv)
           r == Len(BeforeVariadic(Sig))
       IN /\ outcome.called
          /\ \A k \in 1..r : outcome.arguments[BeforeVariadic(Sig)[k].name] = StrV(pos[k])
          /\ outcome.arguments[VariadicName(Sig)]
               = ListV(Texts(SubSeq(pos, r + 1, Len(pos))))

----------------------------------------------------------------------------
(* C5 *)

\* The value the callable gets for the text v given for p: the type of the
\* default of p applied to it.
Converted(p, v) ==
  IF p.default.t = "int" THEN IntOf(v)
  ELSE IF p.default.t = "float" THEN FloatOf(v)
  ELSE StrV(v)

\* The values the flag of name is given.
FlagValues(tokens, name) ==
  {tokens[i + 1] : i \in {j \in 1..(Len(tokens) - 1) : tokens[j] = Flag(name)}}
    \cup {AfterEq(tokens[i]).s :
            i \in {j \in 1..Len(tokens) : FlagOf(tokens[j], name) /\ tokens[j] # Flag(name)}}

\* The permutations of 1..n that leave 1..m where they are.
PermsAfter(m, n) == {f \in Perms(n) : \A i \in 1..m : f[i] = i}

\* No parameter is annotated with an enumeration.
NoEnum(sig) == \A k \in 1..Len(sig) : ~IsEnumAnnotation(sig[k].annotation)

\* C5: for a command without a variadic parameter, (1) positional tokens
\* fill the required parameters and then the optional non-boolean ones in
\* declaration order, and giving the values after the first m as --name
\* VALUE instead, in any order, binds the same arguments; (2) in a call of
\* a command whose parameters are text or numbers, a parameter given
\* positionally or by flag is bound to the value given, converted to the
\* type of its default (an integer for an integer default), and (3) one
\* that is not given is bound to its declared default, None included.
C5_OptionalEitherWay ==
  (Done /\ ~Variadic(Sig)) =>
    /\ (PurelyPositional(argv) /\ Len(argv) <= Len(Suppliable(Sig)))
         => \A m \in 0..Len(argv) : \A f \in PermsAfter(m, Len(argv)) :
              LET named == Parsed(SubSeq(argv, 1, m)
                                  \o NamedTokens(Suppliable(Sig), argv, f, m + 1))
              IN /\ outcome.called <=> named.k = "bound"
                 /\ outcome.called => named.arguments = outcome.arguments
    /\ (outcome.called /\ NoEnum(Sig))
         => \A k \in 1..Len(Suppliable(Sig)) :
              LET p == Suppliable(Sig)[k]
              IN /\ ByPosition(Sig, argv, k)
                   => /\ ValidFor(p, PositionalTokens(Sig, argv)[k])
                      /\ outcome.arguments[p.name]
                           = Converted(p, PositionalTokens(Sig, argv)[k])
                 /\ ByFlag(argv, p.name)
                   => outcome.arguments[p.name]
                        \in {Converted(p, v) :
                               v \in {w \in FlagValues(argv, p.name) : ValidFor(p, w)}}
                 /\ p.default.t = "int" /\ (ByPosition(Sig, argv, k) \/ ByFlag(argv, p.name))
                   => outcome.arguments[p.name].t = "int"
                 /\ (~ByPosition(Sig, argv, k) /\ ~ByFlag(argv, p.name))
                   => outcome.arguments[p.name] = p.default

\* argtest 1 1 1: c, 4 by default, is the integer 1 as with --c 1; d, not
\* given, is None.
C5_Witness ==
  /\ Done
  /\ query = <<"system", "argtest">>
  /\ argv = << <<"1">>, <<"1">>, <<"1">> >>
  /\ outcome.called
  /\ outcome.arguments[<<"c">>] = IntV(1)
  /\ outcome.arguments[<<"d">>] = NoneV
  /\ Parsed(<< <<"1">>, <<"1">>, Flag(<<"c">>), <<"1">> >>).k = "bound"
  /\ Parsed(<< <<"1">>, <<"1">>, Flag(<<"c">>), <<"1">> >>).arguments = outcome.arguments

----------------------------------------------------------------------------
(* C6 *)

\* Token i is the value given by flag for the parameter p.
FlagValueAt(tokens, i, p) ==
  i > 1 /\ tokens[i - 1] = Flag(p.name) /\ ~IsFlagToken(tokens[i])

\* Token i is the value given positionally for the parameter p.
PositionalValueAt(sig, tokens, i, p) ==
  /\ ~Variadic(sig)
  /\ \E k \in 1..Len(Suppliable(sig)) :
       /\ Suppliable(sig)[k] = p
       /\ k <= Len(PositionalIndices(sig, tokens))
       /\ PositionalIndices(sig, tokens)[k] = i

\* C6: when the value given, by flag or positionally, for a parameter whose
\* default is an integer or a float does not convert, the command is not
\* called and the exit status is 2; and when that value is all that is wrong
\* (the token list binds once it is replaced by a number), the error is the
\* invalid-value error that names the flag, or the position, and the value.
C6_BadNumberIsRefused ==
  Done =>
    \A k \in 1..Len(Sig), i \in 1..Len(argv) :
      (/\ Sig[k].default.t \in {"int", "float"}
       /\ FlagValueAt(argv, i, Sig[k]) \/ PositionalValueAt(Sig, argv, i, Sig[k])
       /\ ~ValidFor(Sig[k], argv[i]))
        => /\ ~outcome.called
           /\ outcome.status = 2
           /\ Parsed([argv EXCEPT ![i] = <<"1">>]).k = "bound"
                => outcome.error
                     = UsageError(IF Sig[k].default.t = "int" THEN "invalid int value"
                                  ELSE "invalid float value",
                                  IF FlagValueAt(argv, i, Sig[k]) THEN Flag(Sig[k].name)
                                  ELSE Sig[k].name,
                                  <<argv[i]>>)

\* argtest 1 1 --c x: "argument --c: invalid int value: 'x'", status 2.
C6_Witness ==
  /\ Done
  /\ query = <<"system", "argtest">>
  /\ argv = << <<"1">>, <<"1">>, Flag(<<"c">>), <<"x">> >>
  /\ ~outcome.called
  /\ outcome.status = 2
  /\ outcome.error = UsageError("invalid int value", Flag(<<"c">>), << <<"x">> >>)

----------------------------------------------------------------------------
(* C7 *)

\* The value v is, letter case ignored, a symbol of the enumeration of p.
LegalFor(p, v) == Upper(v) \in MemberSet(p.annotation)

EnumIndices(sig) == {k \in 1..Len(sig) : IsEnumAnnotation(sig[k].annotation)}

\* C7 as stated: for a command whose parameters are all required, each given
\* its value positionally, a value for an enumerated parameter is accepted
\* exactly when it is, letter case ignored, a symbol of that parameter's own
\* enumeration: when every such value is, the command is called and each
\* binds to its symbol; the first that is not is refused with status 2 and
\* an error that lists the legal symbols of its enumeration.
C7_AsStated ==
  (Done /\ AllRequired(Sig) /\ Len(argv) = Len(Sig) /\ PurelyPositional(argv)) =>
    /\ (\A k \in EnumIndices(Sig) : LegalFor(Sig[k], argv[k]))
         => /\ outcome.called
            /\ \A k \in EnumIndices(Sig) :
                 outcome.arguments[Sig[k].name] = EnumV(Sig[k].annotation, Upper(argv[k]))
    /\ \A k \in EnumIndices(Sig) :
         (/\ ~LegalFor(Sig[k], argv[k])
          /\ \A j \in EnumIndices(Sig) : j < k => LegalFor(Sig[j], argv[j]))
           => /\ ~outcome.called
              /\ outcome.status = 2
              /\ outcome.error.other = Members(Sig[k].annotation)

----------------------------------------------------------------------------
(* C8 *)

\* The grammar has one action for name, with these option strings.
OnlyAs(parser, name, opts) ==
  \E i \in ActionsOf(parser, name) :
    ActionsOf(parser, name) = {i} /\ parser.actions[i].opts = opts

\* C8: in a command with a variadic parameter, (1) the grammar has for each
\* required parameter one positional action and no flag, and for each
\* optional non-boolean parameter the flag --name and no positional slot;
\* (2) a token list with the flag of a required parameter, or with fewer
\* positional tokens than required parameters, is refused with status 2,
\* and when it is purely positional the error is "the following arguments
\* are required", which lists the missing ones; (3) in a call, the required
\* parameters are the first positional tokens, every positional token after
\* them is in the variadic parameter, and an optional non-boolean parameter
\* is the value of its flag, or its default.
C8_VariadicGrammar ==
  (Done /\ Variadic(Sig)) =>
    LET pos == PositionalTokens(Sig, argv)
        req == BeforeVariadic(Sig)
    IN /\ \A k \in 1..Len(Sig) :
            /\ Required(Sig[k]) => OnlyAs(Grammar, Sig[k].name, <<>>)
            /\ (Sig[k].default # Empty /\ ~IsBoolParam(Sig[k]))
                 => OnlyAs(Grammar, Sig[k].name, << <<"-", "-">> \o Sig[k].name >>)
       /\ (\E k \in 1..Len(req) : ByFlag(argv, req[k].name))
            => ~outcome.called /\ outcome.status = 2
       /\ Len(pos) < Len(req)
            => /\ ~outcome.called /\ outcome.status = 2
               /\ PurelyPositional(argv)
                    => /\ outcome.error.what = "the following arguments are required"
                       /\ \A k \in (Len(pos) + 1)..Len(req) :
                            \E n \in 1..Len(outcome.error.other) :
                              outcome.error.other[n] = req[k].name
       /\ outcome.called
            => /\ \A k \in 1..Len(req) : outcome.arguments[req[k].name] = StrV(pos[k])
               /\ outcome.arguments[VariadicName(Sig)]
                    = ListV(Texts(SubSeq(pos, Len(req) + 1, Len(pos))))
               /\ \A k \in 1..Len(Sig) :
                    (Sig[k].default # Empty /\ ~IsBoolParam(Sig[k]))
                      => IF ByFlag(argv, Sig[k].name)
                         THEN outcome.arguments[Sig[k].name]
                                \in {Converted(Sig[k], v) :
                                       v \in {w \in FlagValues(argv, Sig[k].name) :
                                                ValidFor(Sig[k], w)}}
                         ELSE outcome.arguments[Sig[k].name] = Sig[k].default

\* argtest2 1 1 --d 1: a and b are the positional tokens, d is the value of
\* its flag, e its default, and --a is no flag of the grammar.
C8_Witness ==
  /\ Done
  /\ query = <<"system", "argtest2">>
  /\ argv = << <<"1">>, <<"1">>, Flag(<<"d">>), <<"1">> >>
  /\ outcome.called
  /\ outcome.arguments[<<"a">>] = StrV(<<"1">>)
  /\ outcome.arguments[<<"c">>] = ListV(<<>>)
  /\ outcome.arguments[<<"d">>] = IntV(1)
  /\ outcome.arguments[<<"e">>] = NoneV
  /\ OnlyAs(Grammar, <<"a">>, <<>>)
  /\ OnlyAs(Grammar, <<"d">>, <<Flag(<<"d">>)>>)

----------------------------------------------------------------------------
(* C9 *)

\* C9: for a command without a variadic parameter, a token list that is
\* accepted has no more positional tokens than parameters a positional
\* token can supply (the booleans excluded); these tokens supply the first
\* of them in declaration order, and none of those is given by flag too:
\* once the n-th is given by flag, no positional token supplies it or a
\* later one.
C9_PositionalPrefix ==
  (Done /\ ~Variadic(Sig) /\ outcome.called) =>
    LET pos == PositionalTokens(Sig, argv)
        sup == Suppliable(Sig)
    IN /\ Len(pos) <= Len(sup)
       /\ \A k \in 1..Len(pos) : ~ByFlag(argv, sup[k].name)
       /\ \A n \in 1..Len(sup) : ByFlag(argv, sup[n].name) => Len(pos) < n
       /\ NoEnum(Sig) =>
            \A k \in 1..Len(pos) :
              /\ ValidFor(sup[k], pos[k])
              /\ outcome.arguments[sup[k].name] = Converted(sup[k], pos[k])

\* argtest 1 --b x: a is given positionally and b by flag; with b given
\* positionally as well (1 x --b 1) the list is refused.
C9_Witness ==
  /\ Done
  /\ query = <<"system", "argtest">>
  /\ argv = << <<"1">>, Flag(<<"b">>), <<"x">> >>
  /\ outcome.called
  /\ outcome.arguments[<<"a">>] = StrV(<<"1">>)
  /\ outcome.arguments[<<"b">>] = StrV(<<"x">>)
  /\ Parsed(<< <<"1">>, <<"x">>, Flag(<<"b">>), <<"1">> >>).k # "bound"

----------------------------------------------------------------------------
(* C10 *)

\* The entry has the commands of the live namespace of its key, every one
\* with the parameters of the live one (names, order, kinds, defaults,
\* annotations), and the grammar built from it is the live one's.
SameGrammar(entry) ==
  LET live == load_namespace(entry.key).command_specs
  IN /\ DOMAIN entry.command_specs = DOMAIN live
     /\ \A c \in DOMAIN live :
          /\ Len(entry.command_specs[c].signature) = Len(live[c].signature)
          /\ \A k \in 1..Len(live[c].signature) :
               entry.command_specs[c].signature[k] = live[c].signature[k]
          /\ argument_parser(entry.key, entry.command_specs, c)
               = argument_parser(entry.key, live, c)

----------------------------------------------------------------------------
(* C11 *)

\* The namespace key of the query is not in the known key set.
UnknownKey(text) ==
  /\ Find(text, ":") = 0 => Atom(text) \notin Commands(load_namespace("system"))
  /\ Atom(QueriedKey(text)) \notin NAMESPACE_KEYS

\* The known keys whose name begins with the queried key.
BeginWith(text) == {k \in Texts_(NAMESPACE_KEYS) : StartsWith(k, QueriedKey(text))}

\* C11: resolving a query whose namespace key is not in the known key set
\* returns no pair: it exits with status 1 and reports the available keys,
\* all of them, and, when the key is not the empty text, closest matches
\* that include every known key whose name begins with the queried key.
C11_UnknownKeySuggestions ==
  (returned.type \in {"resolved", "exit", "raised"} /\ UnknownKey(returned.query)) =>
    /\ returned.type = "exit"
    /\ returned.status = 1
    /\ returned.what = "namespace does not exist"
    /\ Range(returned.available) = Texts_(NAMESPACE_KEYS)
    /\ Len(QueriedKey(returned.query)) > 0
         => BeginWith(returned.query) \subseteq Range(returned.matches)

\* "b" is no key: the closest match is bare, and broken is reported because
\* it begins with b.
C11_Witness ==
  /\ returned.type = "exit"
  /\ returned.query = <<"b">>
  /\ returned.status = 1
  /\ returned.matches = << Text["bare"], Text["broken"] >>

\* C11 as stated: whatever the unknown key, the suggestions include every
\* known key whose name begins with it.
C11_AsStated ==
  (returned.type \in {"resolved", "exit", "raised"} /\ UnknownKey(returned.query)) =>
    /\ returned.type = "exit"
    /\ returned.status = 1
    /\ BeginWith(returned.query) \subseteq Range(returned.matches)

----------------------------------------------------------------------------
(* C12 *)

\* The last call was resolve_command, of a query without a separator.
ResolvedBare ==
  /\ returned.type \in {"resolved", "exit", "raised"}
  /\ Find(returned.query, ":") = 0

----------------------------------------------------------------------------
(* C13 *)

\* The step is made inside one process.
SameProcess == ~NewProcess

\* C13: inside one process, whatever it calls (get_namespace, cache.get,
\* resolve_command, clear), every key the registry holds stays in it with
\* the record stored at its first reference, an ErrorLoadingNamespace as
\* well as a Namespace, so that nothing is loaded a second time; and
\* get_namespace of a key the registry holds returns that record.
C13_LoadedOnce ==
  [][/\ SameProcess =>
          \A key \in DOMAIN namespaces :
            key \in DOMAIN namespaces' /\ namespaces'[key] = namespaces[key]
     /\ \A key \in NAMESPACE_KEYS :
          (GetNamespace(key) /\ key \in DOMAIN namespaces)
            => returned' = namespaces[key] /\ namespaces' = namespaces]_vars

\* The registry holds the failed load of broken and the load of tools, and
\* the last call, get_namespace("broken"), returned the stored failure.
C13_Witness ==
  /\ pc = "cache"
  /\ {"broken", "tools"} \subseteq DOMAIN namespaces
  /\ namespaces["broken"].type = "ErrorLoadingNamespace"
  /\ namespaces["tools"].type = "Namespace"
  /\ returned = namespaces["broken"]

----------------------------------------------------------------------------
(* C14 *)

\* C14 as stated: no failure of a load leaves get_namespace, cache.get or
\* resolve_command as an exception: a key whose load failed is in the
\* registry with an ErrorLoadingNamespace without commands, and the listing
\* of the namespaces (clr help) runs to its end and exits with 0.
C14_AsStated ==
  /\ returned.type \notin {"raise", "raised"}
  /\ \A key \in DOMAIN namespaces :
       namespaces[key].type = "ErrorLoadingNamespace"
         => Commands(namespaces[key]) = {}
  /\ (pc = "exited" /\ outcome # NoOutcome) => outcome.status = 0

----------------------------------------------------------------------------
(* C15 *)

\* The configured keys: every key but system.
ConfiguredKeys == CacheKeys \ {"system"}

\* self.cache holds the key when get looks (line 471): the process read the
\* store before and its copy has the key, or it reads the store now, the
\* store can be read and has the key.
HeldInMemory(key, read_ok) ==
  IF cache.loaded THEN key \in DOMAIN cache.entries
  ELSE read_ok /\ key \in DOMAIN shelf

\* The entry self.cache has for the key then.
HeldEntry(key) ==
  IF cache.loaded THEN cache.entries[key] ELSE Unpickle(shelf[key])

\* C15: cache.get of a configured key that the process's copy of the store
\* holds (the store is read once, at the first cache.get of the process, and
\* a store that cannot be read is read as empty) returns the held entry and
\* changes neither the registry nor the store: nothing is loaded.
C15_HitLoadsNothing ==
  [][\A key \in ConfiguredKeys, read_ok \in BOOLEAN, write_ok \in BOOLEAN :
       (CacheGet(key, read_ok, write_ok) /\ HeldInMemory(key, read_ok))
         => /\ returned' = HeldEntry(key)
            /\ namespaces' = namespaces
            /\ shelf' = shelf]_vars

\* A process that has loaded nothing but system got the entry of demo that
\* an earlier process had written.
C15_Witness ==
  /\ pc = "cache"
  /\ "demo" \in DOMAIN shelf
  /\ DOMAIN namespaces \subseteq {"system"}
  /\ cache.loaded
  /\ returned.type = "NamespaceCacheEntry"
  /\ returned = Unpickle(shelf["demo"])

\* C15 as stated: cache.get of a configured key that the store holds returns
\* the stored entry and changes neither the registry nor the store.
C15_AsStated ==
  [][\A key \in ConfiguredKeys, read_ok \in BOOLEAN, write_ok \in BOOLEAN :
       (CacheGet(key, read_ok, write_ok) /\ key \in DOMAIN shelf)
         => /\ returned' = Unpickle(shelf[key])
            /\ namespaces' = namespaces
            /\ shelf' = shelf]_vars

----------------------------------------------------------------------------
(* C16 *)

\* The entry is the projection of the live namespace: its key, its
\* descriptions and the specs of its commands.
ProjectionOf(entry, namespace) ==
  /\ entry.type = "NamespaceCacheEntry"
  /\ entry.key = namespace.key
  /\ entry.descr = namespace.descr
  /\ entry.longdescr = namespace.longdescr
  /\ entry.command_specs = namespace.command_specs

\* C16: cache.get of a configured key that the process's copy of the store
\* does not hold loads the namespace.  A namespace that loads gives its
\* projection: it is returned, kept in the copy and written to the store
\* when the store can be written; when it cannot, the store is left as it is
\* and the same projection is returned, the process going on.  A load that
\* fails as an ErrorLoadingNamespace returns that record and writes
\* nothing, in memory or in the store; a load that raises leaves get as its
\* exception, the registry and the store unchanged.
C16_MissLoadsAndWrites ==
  [][\A key \in ConfiguredKeys, read_ok \in BOOLEAN, write_ok \in BOOLEAN :
       (CacheGet(key, read_ok, write_ok) /\ ~HeldInMemory(key, read_ok))
         => IF LacksCommands(key) /\ key \notin DOMAIN namespaces
            THEN /\ returned'.type = "raise"
                 /\ pc' = "exited"
                 /\ namespaces' = namespaces
                 /\ shelf' = shelf
            ELSE /\ key \in DOMAIN namespaces'
                 /\ pc' = "cache"
                 /\ IF namespaces'[key].type = "Namespace"
                    THEN /\ ProjectionOf(returned', namespaces'[key])
                         /\ cache'.entries[key] = returned'
                         /\ shelf' = IF write_ok
                                     THEN Put(shelf, key, Pickle(returned'))
                                     ELSE shelf
                    ELSE /\ returned' = namespaces'[key]
                         /\ key \notin DOMAIN cache'.entries
                         /\ shelf' = shelf]_vars

\* The store could not be written when tools was loaded: the process has the
\* namespace and its projection, which get returned, and the store has no
\* entry of tools.
C16_Witness ==
  /\ pc = "cache"
  /\ "tools" \in DOMAIN namespaces
  /\ "tools" \notin DOMAIN shelf
  /\ cache.loaded
  /\ "tools" \in DOMAIN cache.entries
  /\ ProjectionOf(returned, namespaces["tools"])
  /\ DOMAIN cache.entries = {"tools"}
  /\ DOMAIN namespaces = {"tools"}

\* C16 as stated: cache.get of a configured key that the store does not hold
\* loads the namespace, returns its projection and writes it where the store
\* can be written.
C16_AsStated ==
  [][\A key \in ConfiguredKeys, read_ok \in BOOLEAN, write_ok \in BOOLEAN :
       (CacheGet(key, read_ok, write_ok) /\ key \notin DOMAIN shelf)
         => /\ key \in DOMAIN namespaces'
            /\ ProjectionOf(returned', namespaces'[key])
            /\ shelf' = IF write_ok THEN Put(shelf, key, Pickle(returned')) ELSE shelf]_vars

----------------------------------------------------------------------------
(* C17 *)

\* C17 as stated: while the store has no entry of the key, in the process
\* that called clear() as in any other, cache.get of the key loads the
\* namespace (or the load raises).  A process that read the entry of help
\* from the store and then called clear() is served the entry by the next
\* cache.get("help"), without a load, and the store stays empty.
C17_AsStated ==
  [][\A key \in ConfiguredKeys, read_ok \in BOOLEAN, write_ok \in BOOLEAN :
       (CacheGet(key, read_ok, write_ok) /\ key \notin DOMAIN shelf)
         => (key \in DOMAIN namespaces' \/ returned'.type = "raise")]_vars

----------------------------------------------------------------------------
(* C18 *)

\* The entry is a whole projection of the namespace it is filed under.
Complete(key, entry) ==
  /\ entry.type = "NamespaceCacheEntry"
  /\ entry.key = key
  /\ SameGrammar(entry)

\* C18 as stated: whatever the invocations on one store do side by side,
\* every cache.get returns a whole entry of its key (or the failed load of
\* the namespace), every copy and the store hold whole entries only, and no
\* call, cache.get or clear(), ends in an exception of the store: an update
\* may be lost and nothing else goes wrong.
C18_AsStated ==
  /\ \A key \in DOMAIN shelf : Complete(key, Unpickle(shelf[key]))
  /\ \A p \in Procs :
       /\ \A key \in DOMAIN invocations[p].cache.entries :
            Complete(key, invocations[p].cache.entries[key])
       /\ invocations[p].returned.type = "NamespaceCacheEntry"
            => SameGrammar(invocations[p].returned)
       /\ invocations[p].returned.type # "raise"
       /\ invocations[p].pc # "exited"

----------------------------------------------------------------------------
(* C19 *)

\* The process ran the command callable and the callable raised.
CommandRaised == pc = "done" /\ outcome.called /\ outcome.error.k = "raise"

\* C19: a process whose command callable raised reports the exception and
\* exits with a status that is not 0, not 1 (the status of a query that
\* does not resolve) and not 2 (the status of arguments that do not parse):
\* the exit code is 999, which the caller sees as 231.
C19_RaisingCommandStatus ==
  /\ CommandRaised
       => /\ outcome.status = 999
          /\ ExitStatus(outcome.status) \notin {0, 1, 2}
  /\ (pc = "done" /\ outcome.error.k = "resolve") => ExitStatus(outcome.status) = 1
  /\ (pc = "done" /\ outcome.error.k = "error") => ExitStatus(outcome.status) = 2

\* tools:scale 1 was called with a=1 and raised: status 231.
C19_Witness ==
  /\ CommandRaised
  /\ query = <<"tools", "scale">>
  /\ argv = << <<"1">> >>
  /\ outcome.arguments[<<"a">>] = StrV(<<"1">>)
  /\ ExitStatus(outcome.status) = 231

----------------------------------------------------------------------------
(* C20 *)

\* The two runs agree on what the claim is about: whether the callable
\* ran, the arguments it got and the exit code.
SameRun(o1, o2) ==
  /\ o1.called = o2.called
  /\ o1.arguments = o2.arguments
  /\ o1.status = o2.status

\* C20 as stated: whatever was typed and whatever the callable does, the
\* process run with telemetry absent or failing leaves what the process run
\* with telemetry working leaves.  For a namespace with cmdinit it does not:
\* help:topic 1 calls cmd_topic and exits with 0 when beeline is imported,
\* and ends in an AttributeError with status 1, cmd_topic not called, when
\* it is not.
C20_AsStated ==
  pc = "typing"
    => \A ret \in Returns(query[1], query[2]), beeline \in Telemetry :
         SameRun(main(namespaces, query, argv, ret, beeline),
                 main(namespaces, query, argv, ret, "working"))

----------------------------------------------------------------------------
(* C21 *)

\* The words before the one being completed.
PreviousArgs == SubSeq(argv, 1, Len(argv) - 1)

\* The flags of the required parameters that the words before the current
\* one do not give, in declaration order.
UnmetRequired == missing_args(Sig, PreviousArgs, TRUE, 1)

\* C21 as stated: when the previous word is not a flag that waits for its
\* value, a command that has an unmet required parameter gets one
\* suggestion, the flag of the first of them, and no optional flag (a
\* command with *args gets status 2); the optional flags not used yet are
\* listed only when no required parameter is unmet.  The code prints the
\* optional flags before it looks at the required ones: argtest with
\* nothing typed gets --c --d --e --noe --f --nof and then --a.
C21_AsStated ==
  (pc = "smart_completed" /\ ~AwaitsValue(Sig, PreviousArgs))
    => IF Len(UnmetRequired) > 0
       THEN IF has_var_positional(Sig)
            THEN returned.status = 2
            ELSE returned.out = << UnmetRequired[1] >> /\ returned.status = 0
       ELSE returned.out
              = print_for_complete(argv[Len(argv)],
                                   missing_args(Sig, PreviousArgs, FALSE, 1))

----------------------------------------------------------------------------
(* C22 *)

\* str.strip of the blanks at both ends.
RECURSIVE Strip(_)
Strip(text) ==
  IF Len(text) > 0 /\ Head(text) = " " THEN Strip(Tail(text))
  ELSE IF Len(text) > 0 /\ text[Len(text)] = " "
  THEN Strip(SubSeq(text, 1, Len(text) - 1))
  ELSE text

\* C22 as stated: cmd_complete_arg of a command that resolves completes
\* normally and prints the flags of the command that begin with the partial
\* text: --name for every parameter and --noname for every boolean one, the
\* flags of the boolean parameters only when bools_only is set.  Every call
\* ends in the NameError of line 567 instead and prints nothing.
C22_AsStated ==
  pc = "arg_completed"
    => /\ returned.type = "completion"
       /\ returned.out
            = print_for_complete(Strip(returned.partial),
                                 complete_arg_options(Sig, returned.bools_only))

(***************************************************************************)
(* C23: malformed parameter declarations.                                  *)
(***************************************************************************)

\* A declaration the grammar cannot express: a default that is neither text,
\* boolean, integer nor float, a catch-all keyword parameter, or an optional
\* parameter before a variadic one.
MalformedDeclaration(parameters) ==
  \E k \in 1..Len(parameters) :
    \/ parameters[k].default.t = "other"
    \/ parameters[k].kind = "VAR_KEYWORD"
    \/ /\ parameters[k].default.t # "empty"
       /\ parameters[k].kind # "VAR_POSITIONAL"
       /\ \E j \in (k + 1)..Len(parameters) : parameters[j].kind = "VAR_POSITIONAL"

DeclaresMalformed(namespace) ==
  \E c \in DOMAIN namespace.command_specs :
    MalformedDeclaration(namespace.command_specs[c].signature)

\* C23: a namespace that declares a malformed command is rejected when it is
\* loaded: it is never held as a loaded namespace, and no command of it is
\* resolved, parsed or run.
C23_AsStated ==
  /\ \A key \in DOMAIN namespaces :
       namespaces[key].type = "Namespace" => ~DeclaresMalformed(namespaces[key])
  /\ (Done /\ DeclaresMalformed(load_namespace(query[1]))) => ~outcome.called

(***************************************************************************)
(* C24: the call the binder builds is a legal call.                        *)
(***************************************************************************)

\* The grammar of the command asked for was built, and it accepts the tokens
\* typed.
GrammarAccepts == Grammar.error = "none" /\ ArgparseParse(Grammar, argv).k = "ok"

\* C24: whenever the grammar of a command was built and accepted the tokens
\* typed, the positional list and the name mapping the binder built from
\* the parse are a legal call of the command's parameter list:
\* signature.bind does not raise.
C24_AsStated ==
  (Done /\ GrammarAccepts)
    => /\ BindParsed(Sig, ArgparseParse(Grammar, argv)).k = "bound"
       /\ ~(outcome.error.k = "raise" /\ outcome.error.what = "TypeError")

(***************************************************************************)
(* C25: what the cache holds.                                              *)
(***************************************************************************)

\* A key an entry may be filed under: a configured namespace other than
\* system whose load gives a Namespace.
Cacheable(key) == key # "system" /\ load_namespace(key).type = "Namespace"

\* C25: every entry of the store on disk and of the copy a process holds in
\* memory is filed under a key other than system whose load succeeded, and
\* carries that key; the record of a failed load that get returned is in
\* neither, so the next invocation loads the namespace again.
C25_OnlyLoadedNamespacesCached ==
  /\ \A key \in DOMAIN shelf :
       Cacheable(key) /\ Unpickle(shelf[key]).key = key
  /\ \A key \in DOMAIN cache.entries :
       /\ Cacheable(key)
       /\ cache.entries[key].type = "NamespaceCacheEntry"
       /\ cache.entries[key].key = key
  /\ returned.type = "ErrorLoadingNamespace"
       => returned.key \notin DOMAIN shelf \cup DOMAIN cache.entries

\* A later process, which read the entry of tools from the store, asked for
\* broken: the namespace was loaded again in this process, and the failure
\* is filed nowhere.
C25_Witness ==
  /\ pc = "cache"
  /\ returned.type = "ErrorLoadingNamespace"
  /\ returned.key = "broken"
  /\ "broken" \in DOMAIN namespaces
  /\ "tools" \in DOMAIN shelf
  /\ "tools" \in DOMAIN cache.entries
  /\ "tools" \notin DOMAIN namespaces
  /\ "broken" \notin DOMAIN shelf \cup DOMAIN cache.entries


=============================================================================
